---- MODULE Spec2Model ----
(***************************************************************************)
(* A model of pysong: the score model (Song / Track / Measure / Event /    *)
(* Note), the exporter SongMidiConverter.export_midi and the importer      *)
(* SongMidiConverter.create_song_from_pretty_midi_instruments.             *)
(*                                                                         *)
(* Python lists are sequences, Python objects are records, a mido message  *)
(* is a tuple <<type, ...fields..., time>>.  An index i of the source is   *)
(* the index i+1 here.                                                     *)
(***************************************************************************)
EXTENDS Integers, Sequences, FiniteSets, TLC

VARIABLES
    root,    \* which kind of object the caller builds: "song", "pm" or "midi"
    song,    \* the Song under construction (root = "song")
    pm,      \* the PrettyMIDI object handed to the importer (root = "pm")
    stream,  \* the MidiFile built message by message (root = "midi")
    trail,   \* the results of the conversions applied so far, oldest first
    call     \* the call of a method of the score model under study, and its result

vars == <<root, song, pm, stream, trail, call>>

----------------------------------------------------------------------------
(* Bounds of the model. *)

MaxTracks == 1
MaxMeasures == 2
MaxEvents == 2
MaxNotes == 3
MaxTrail == 3
MaxInstruments == 1
MaxIntervals == 3
MaxDownbeats == 2
MaxTick == 3
MaxMessages == 6
MaxScoreTracks == 2
MaxScoreMeasures == 3
MaxScoreEvents == 1

(* The pitches, velocities and time signatures the inputs are drawn from.  *)
(* The two pitches fall in different slots of a CPython set's hash table   *)
(* (60 % 8 = 4, 64 % 8 = 0), so that iteration order and pitch order       *)
(* differ.                                                                 *)
Pitches == {60, 64}

----------------------------------------------------------------------------
(* song_elements.py: the score model. *)

TimeSignature(numerator, denominator) ==
    [numerator |-> numerator, denominator |-> denominator]

DefaultTimeSignature == TimeSignature(4, 4)


Note(midi_pitch, velocity, tie_from_previous) ==
    [midi_pitch |-> midi_pitch, velocity |-> velocity,
     tie_from_previous |-> tie_from_previous]

Event(duration) == [duration |-> duration, notes |-> <<>>]

Measure(start_tick, time_signature) ==
    [start_tick |-> start_tick, time_signature |-> time_signature,
     events |-> <<>>]

Track(name, program, channel, track_type) ==
    [name |-> name, program |-> program, channel |-> channel,
     track_type |-> track_type, measures |-> <<>>]

Song(name, ticks_per_beat) ==
    [name |-> name, time_signature |-> DefaultTimeSignature,
     key |-> [tonic_pitch_class |-> 0, mode |-> "MAJOR"],
     tracks |-> <<>>, ticks_per_beat |-> ticks_per_beat]

(* Measure.get_duration_ticks: int(numerator * 4.0 / denominator * tpb).   *)
(* int() truncates, and the operands are not negative.                     *)
get_duration_ticks(time_signature, ticks_per_beat) ==
    (time_signature.numerator * 4 * ticks_per_beat) \div time_signature.denominator

(* Song.new_track *)
new_track(s, name, program, channel, track_type) ==
    [s EXCEPT !.tracks = Append(@, Track(name, program, channel, track_type))]

(* Track.new_measure on track t of s; NoTimeSignature is the default None. *)
NoTimeSignature == TimeSignature(0, 0)

(* new_measure placing the measure after a measure of its own length. *)
new_measure_after_own_duration(s, t, time_signature) ==
    LET track == s.tracks[t]
        n == Len(track.measures)
        ts == IF time_signature = NoTimeSignature
              THEN s.time_signature ELSE time_signature
        next_tick ==
            IF n > 0
            THEN track.measures[n].start_tick
                 + get_duration_ticks(ts, s.ticks_per_beat)
            ELSE 0
    IN [s EXCEPT !.tracks[t].measures = Append(@, Measure(next_tick, ts))]

new_measure(s, t, time_signature) ==
    LET track == s.tracks[t]
        n == Len(track.measures)
        next_tick ==
            IF n > 0
            THEN track.measures[n].start_tick
                 + get_duration_ticks(track.measures[n].time_signature,
                                      s.ticks_per_beat)
            ELSE 0
        ts == IF time_signature = NoTimeSignature
              THEN s.time_signature ELSE time_signature
    IN [s EXCEPT !.tracks[t].measures = Append(@, Measure(next_tick, ts))]

(* Measure.new_event on measure m of track t *)
new_event(s, t, m, duration) ==
    [s EXCEPT !.tracks[t].measures[m].events = Append(@, Event(duration))]

(* Event.new_note / Event.append_note on event e of measure m of track t *)
new_note(s, t, m, e, midi_pitch, velocity, tie_from_previous) ==
    [s EXCEPT !.tracks[t].measures[m].events[e].notes =
        Append(@, Note(midi_pitch, velocity, tie_from_previous))]

----------------------------------------------------------------------------
(* mido messages, as export_midi builds them. *)

program_change(channel, program, time) ==
    <<"program_change", channel, program, time>>

note_on(channel, note, velocity, time) ==
    <<"note_on", channel, note, velocity, time>>

note_off(channel, note, time) == <<"note_off", channel, note, 0, time>>

time_signature_msg(numerator, denominator, time) ==
    <<"time_signature", numerator, denominator, time>>

end_of_track == <<"end_of_track", 0>>

MsgType(msg) == msg[1]
MsgTime(msg) == msg[Len(msg)]

----------------------------------------------------------------------------
(* Iteration order of a Python set of small ints (CPython): the elements   *)
(* sit in a table of 8 slots, at slot hash & 7 = pitch % 8, and are        *)
(* visited in slot order.  Exact for sets of fewer than five pitches with  *)
(* different slots, which is what Pitches gives.                           *)

RECURSIVE SetIter(_)
SetIter(S) ==
    IF S = {} THEN <<>>
    ELSE LET x == CHOOSE y \in S :
                    \A z \in S : <<y % 8, y>> = <<z % 8, z>>
                                 \/ y % 8 < z % 8
                                 \/ (y % 8 = z % 8 /\ y < z)
         IN <<x>> \o SetIter(S \ {x})

(* SongMidiConverter._turn_off_notes: st carries msgs and prev_tick. *)
RECURSIVE turn_off_notes(_, _, _, _, _)
turn_off_notes(st, channel, tick, notes_to_turn_off, notes_to_ignore) ==
    IF notes_to_turn_off = <<>> THEN st
    ELSE LET pitch == Head(notes_to_turn_off)
             st1 == IF pitch \notin notes_to_ignore
                    THEN [st EXCEPT
                            !.msgs = Append(@, note_off(channel, pitch,
                                                        tick - st.prev_tick)),
                            !.prev_tick = tick]
                    ELSE st
         IN turn_off_notes(st1, channel, tick, Tail(notes_to_turn_off),
                           notes_to_ignore)

(* export_midi, lines 94-116: the loop over the notes of one event. *)
RECURSIVE ExportNotes(_, _, _)
ExportNotes(st, channel, notes) ==
    IF notes = <<>> \/ st.error THEN st
    ELSE LET note == Head(notes)
             pitch == note.midi_pitch
             velocity == note.velocity
             tie == note.tie_from_previous
             ok == /\ pitch >= 0 /\ pitch < 128
                   /\ (tie \/ (velocity >= 0 /\ velocity < 128))
             st1 ==
                IF ~ok THEN [st EXCEPT !.error = TRUE]
                ELSE IF velocity > 0 /\ ~tie
                THEN [st EXCEPT
                        !.msgs = Append(@, note_on(channel, pitch, velocity,
                                                   st.tick - st.prev_tick)),
                        !.prev_tick = st.tick,
                        !.sounding_notes = @ \cup {pitch}]
                ELSE IF ~tie
                THEN [st EXCEPT
                        !.msgs = Append(@, note_off(channel, pitch,
                                                    st.tick - st.prev_tick)),
                        !.prev_tick = st.tick]
                ELSE [st EXCEPT !.sounding_notes = @ \cup {pitch}]
         IN ExportNotes(st1, channel, Tail(notes))

(* ExportEvent without line 89: no pitch is kept for a tie. *)
ExportEventCuttingTies(st, channel, event) ==
    LET st1 == turn_off_notes(st, channel, st.tick,
                              SetIter(st.prev_sounding_notes), {})
        st2 == ExportNotes([st1 EXCEPT !.sounding_notes = {}], channel,
                           event.notes)
    IN IF st2.error THEN st2
       ELSE [st2 EXCEPT !.prev_sounding_notes = st2.sounding_notes,
                        !.tick = @ + event.duration]

(* ExportEvent with line 91 moved after the loop of lines 94-116: the      *)
(* notes of the event are written before the sounding pitches are turned   *)
(* off.                                                                    *)
ExportEventNotesFirst(st, channel, event) ==
    LET tied_from_previous ==
            {event.notes[i].midi_pitch : i \in
                {j \in 1..Len(event.notes) : event.notes[j].tie_from_previous}}
        st1 == ExportNotes([st EXCEPT !.sounding_notes = {}], channel,
                           event.notes)
        st2 == turn_off_notes(st1, channel, st1.tick,
                              SetIter(st.prev_sounding_notes), tied_from_previous)
    IN IF st2.error THEN st2
       ELSE [st2 EXCEPT !.prev_sounding_notes = st2.sounding_notes,
                        !.tick = @ + event.duration]

(* export_midi, lines 84-119: one event. *)
ExportEvent(st, channel, event) ==
    LET tied_from_previous ==
            {event.notes[i].midi_pitch : i \in
                {j \in 1..Len(event.notes) : event.notes[j].tie_from_previous}}
        st1 == turn_off_notes(st, channel, st.tick,
                              SetIter(st.prev_sounding_notes), tied_from_previous)
        st2 == ExportNotes([st1 EXCEPT !.sounding_notes = {}], channel,
                           event.notes)
    IN IF st2.error THEN st2
       ELSE [st2 EXCEPT !.prev_sounding_notes = st2.sounding_notes,
                        !.tick = @ + event.duration]

RECURSIVE ExportEvents(_, _, _)
ExportEvents(st, channel, events) ==
    IF events = <<>> \/ st.error THEN st
    ELSE ExportEvents(ExportEvent(st, channel, Head(events)), channel,
                      Tail(events))

(* ExportMeasure without lines 74-82: no time_signature message. *)
ExportMeasureWithoutTimeSignature(st, channel, track_idx, measure, ticks_per_beat) ==
    LET st2 == ExportEvents([st EXCEPT !.tick = measure.start_tick], channel,
                            measure.events)
    IN IF st2.error THEN st2
       ELSE IF st2.tick < measure.start_tick
                          + get_duration_ticks(measure.time_signature,
                                               ticks_per_beat)
       THEN [turn_off_notes(st2, channel, st2.tick,
                            SetIter(st2.prev_sounding_notes), {})
                EXCEPT !.prev_sounding_notes = {}]
       ELSE st2

(* ExportMeasure without lines 121-126: an under-filled measure turns no   *)
(* note off.                                                               *)
ExportMeasureCarryingAlways(st, channel, track_idx, measure, ticks_per_beat) ==
    LET st0 == [st EXCEPT !.tick = measure.start_tick]
        st1 == IF track_idx = 0
                  /\ measure.time_signature # st0.previous_time_signature
               THEN [st0 EXCEPT
                       !.previous_time_signature = measure.time_signature,
                       !.msgs = Append(@, time_signature_msg(
                                   measure.time_signature.numerator,
                                   measure.time_signature.denominator,
                                   st0.tick - st0.prev_tick)),
                       !.prev_tick = st0.tick]
               ELSE st0
    IN ExportEvents(st1, channel, measure.events)

(* export_midi, lines 69-128: one measure. *)
ExportMeasure(st, channel, track_idx, measure, ticks_per_beat) ==
    LET st0 == [st EXCEPT !.tick = measure.start_tick]
        st1 == IF track_idx = 0
                  /\ measure.time_signature # st0.previous_time_signature
               THEN [st0 EXCEPT
                       !.previous_time_signature = measure.time_signature,
                       !.msgs = Append(@, time_signature_msg(
                                   measure.time_signature.numerator,
                                   measure.time_signature.denominator,
                                   st0.tick - st0.prev_tick)),
                       !.prev_tick = st0.tick]
               ELSE st0
        st2 == ExportEvents(st1, channel, measure.events)
    IN IF st2.error THEN st2
       ELSE IF st2.tick < measure.start_tick
                          + get_duration_ticks(measure.time_signature,
                                               ticks_per_beat)
       THEN [turn_off_notes(st2, channel, st2.tick,
                            SetIter(st2.prev_sounding_notes), {})
                EXCEPT !.prev_sounding_notes = {}]
       ELSE st2

RECURSIVE ExportMeasures(_, _, _, _, _)
ExportMeasures(st, channel, track_idx, measures, ticks_per_beat) ==
    IF measures = <<>> \/ st.error THEN st
    ELSE ExportMeasures(
            ExportMeasure(st, channel, track_idx, Head(measures), ticks_per_beat),
            channel, track_idx, Tail(measures), ticks_per_beat)

(* ExportTrack without lines 130-132: no note is turned off at the end of *)
(* the track.                                                              *)
ExportTrackWithoutFinalNoteOffs(track, track_idx, ticks_per_beat) ==
    IF track.channel > 15
    THEN [name |-> track.name, msgs |-> <<>>, error |-> FALSE]
    ELSE LET st0 == [msgs |-> <<program_change(track.channel, track.program, 0)>>,
                     prev_tick |-> 0, tick |-> 0,
                     prev_sounding_notes |-> {}, sounding_notes |-> {},
                     previous_time_signature |-> NoTimeSignature,
                     error |-> FALSE]
             st1 == ExportMeasures(st0, track.channel, track_idx,
                                   track.measures, ticks_per_beat)
         IN [name |-> track.name,
             msgs |-> IF st1.error THEN <<>> ELSE Append(st1.msgs, end_of_track),
             error |-> st1.error]

(* ExportTrack failing on a channel above 15 instead of skipping it. *)
ExportTrackFailingAbove15(track, track_idx, ticks_per_beat) ==
    IF track.channel > 15
    THEN [name |-> track.name, msgs |-> <<>>, error |-> TRUE]
    ELSE LET st0 == [msgs |-> <<program_change(track.channel, track.program, 0)>>,
                     prev_tick |-> 0, tick |-> 0,
                     prev_sounding_notes |-> {}, sounding_notes |-> {},
                     previous_time_signature |-> NoTimeSignature,
                     error |-> FALSE]
             st1 == ExportMeasures(st0, track.channel, track_idx,
                                   track.measures, ticks_per_beat)
             st2 == turn_off_notes(st1, track.channel, st1.tick,
                                   SetIter(st1.prev_sounding_notes), {})
         IN [name |-> track.name,
             msgs |-> IF st1.error THEN <<>> ELSE Append(st2.msgs, end_of_track),
             error |-> st1.error]

(* export_midi, lines 52-135: one track; the result is a MidiTrack.        *)
(* track_idx is the source's 0-based index.                                *)
ExportTrack(track, track_idx, ticks_per_beat) ==
    IF track.channel > 15
    THEN [name |-> track.name, msgs |-> <<>>, error |-> FALSE]
    ELSE LET st0 == [msgs |-> <<program_change(track.channel, track.program, 0)>>,
                     prev_tick |-> 0, tick |-> 0,
                     prev_sounding_notes |-> {}, sounding_notes |-> {},
                     previous_time_signature |-> NoTimeSignature,
                     error |-> FALSE]
             st1 == ExportMeasures(st0, track.channel, track_idx,
                                   track.measures, ticks_per_beat)
             st2 == turn_off_notes(st1, track.channel, st1.tick,
                                   SetIter(st1.prev_sounding_notes), {})
         IN [name |-> track.name,
             msgs |-> IF st1.error THEN <<>> ELSE Append(st2.msgs, end_of_track),
             error |-> st1.error]

(* MidiFile.save, line 137: a delta time is written as a variable-length   *)
(* quantity, which has no negative values; the writer raises ValueError.   *)
Savable(file) ==
    \A i \in 1..Len(file.tracks) :
        \A j \in 1..Len(file.tracks[i].msgs) : MsgTime(file.tracks[i].msgs[j]) >= 0

(* SongMidiConverter.export_midi: the MidiFile that is saved;              *)
(* AssertionError when an assert of the note loop fails, ValueError when   *)
(* the file cannot be saved (val is then the MidiFile that was built in    *)
(* memory and never written).                                              *)
export_midi(s) ==
    LET tracks == [i \in 1..Len(s.tracks) |->
                      ExportTrack(s.tracks[i], i - 1, s.ticks_per_beat)]
        failed == \E i \in 1..Len(tracks) : tracks[i].error
        file == [ticks_per_beat |-> s.ticks_per_beat,
                 tracks |-> [i \in 1..Len(tracks) |->
                               [name |-> tracks[i].name,
                                msgs |-> tracks[i].msgs]]]
    IN IF failed
       THEN [kind |-> "AssertionError", val |-> <<>>]
       ELSE [kind |-> IF Savable(file) THEN "MidiFile" ELSE "ValueError",
             val |-> file]

----------------------------------------------------------------------------
(* The transport codec and the beat extractor (PrettyMIDI and               *)
(* pretty_midi_utils.get_all_time_signatures), in the tick domain: what     *)
(* create_song_from_midi reads from a saved file.                           *)

(* The messages of a track with their absolute ticks: <<msg, tick>>. *)
RECURSIVE AbsTicks(_, _)
AbsTicks(msgs, tick) ==
    IF msgs = <<>> THEN <<>>
    ELSE LET t == tick + MsgTime(Head(msgs))
         IN <<<<Head(msgs), t>>>> \o AbsTicks(Tail(msgs), t)

(* Note intervals of one track: a note_on opens a note, a note_off (or a   *)
(* note_on of velocity 0) closes every open note of its pitch that started *)
(* at an earlier tick; an unmatched note_off is ignored.  open is the      *)
(* sequence of open <<pitch, start, velocity>>.                            *)
RECURSIVE DecodeNotes(_, _)
DecodeNotes(timed, open) ==
    IF timed = <<>> THEN <<>>
    ELSE LET msg == Head(timed)[1]
             tick == Head(timed)[2]
         IN IF MsgType(msg) = "note_on" /\ msg[4] > 0
            THEN DecodeNotes(Tail(timed), Append(open, <<msg[3], tick, msg[4]>>))
            ELSE IF MsgType(msg) \in {"note_on", "note_off"}
            THEN LET mine(o) == o[1] = msg[3]
                     to_close == SelectSeq(open, LAMBDA o : mine(o) /\ o[2] # tick)
                     to_keep == SelectSeq(open, LAMBDA o : mine(o) /\ o[2] = tick)
                     others == SelectSeq(open, LAMBDA o : ~mine(o))
                     closed == [i \in 1..Len(to_close) |->
                                  [start |-> to_close[i][2], end |-> tick,
                                   pitch |-> msg[3], velocity |-> to_close[i][3]]]
                     left == IF to_close # <<>> /\ to_keep # <<>>
                             THEN others \o to_keep ELSE others
                 IN closed \o DecodeNotes(Tail(timed), left)
            ELSE DecodeNotes(Tail(timed), open)

(* The channel and program of a track: those of its program_change. *)
TrackChannel(msgs) ==
    LET pcs == SelectSeq(msgs, LAMBDA m : MsgType(m) = "program_change")
    IN IF pcs = <<>> THEN 0 ELSE pcs[1][2]

TrackProgram(msgs) ==
    LET pcs == SelectSeq(msgs, LAMBDA m : MsgType(m) = "program_change")
    IN IF pcs = <<>> THEN 0 ELSE pcs[1][3]

(* One Instrument per track that holds at least one note. *)
DecodeInstruments(file) ==
    LET inst(i) ==
            [name |-> file.tracks[i].name,
             program |-> TrackProgram(file.tracks[i].msgs),
             is_drum |-> TrackChannel(file.tracks[i].msgs) = 9,
             notes |-> DecodeNotes(AbsTicks(file.tracks[i].msgs, 0), <<>>)]
        all == [i \in 1..Len(file.tracks) |-> inst(i)]
    IN SelectSeq(all, LAMBDA x : x.notes # <<>>)

(* The time signature changes: those of the first track, <<ts, tick>>. *)
TimeSignatureChanges(file) ==
    LET timed == AbsTicks(file.tracks[1].msgs, 0)
        sel == SelectSeq(timed, LAMBDA x : MsgType(x[1]) = "time_signature")
    IN [i \in 1..Len(sel) |-> <<TimeSignature(sel[i][1][2], sel[i][1][3]), sel[i][2]>>]

(* The time signature in force at a tick: the last change at or before it, *)
(* 4/4 when there is none.                                                 *)
RECURSIVE TimeSignatureAt(_, _, _)
TimeSignatureAt(changes, tick, current) ==
    IF changes = <<>> THEN current
    ELSE TimeSignatureAt(Tail(changes), tick,
            IF Head(changes)[2] <= tick THEN Head(changes)[1] ELSE current)

MaxOf(S) == IF S = {} THEN 0 ELSE CHOOSE x \in S : \A y \in S : y <= x

(* The end of the file: the last note end or time signature change. *)
EndTick(instruments, changes) ==
    MaxOf(UNION {{instruments[i].notes[j].end : j \in 1..Len(instruments[i].notes)} :
                    i \in 1..Len(instruments)}
          \cup {changes[i][2] : i \in 1..Len(changes)})

(* The downbeats: from tick 0, one every measure of the time signature in  *)
(* force, a time signature change starting a measure of its own, up to the *)
(* end of the file (exclusive).                                            *)
RECURSIVE Downbeats(_, _, _, _)
Downbeats(tick, changes, end_tick, ticks_per_beat) ==
    IF tick >= end_tick THEN <<>>
    ELSE LET ts == TimeSignatureAt(changes, tick, DefaultTimeSignature)
             later == {changes[i][2] : i \in 1..Len(changes)} \cap
                      ((tick + 1)..(tick + get_duration_ticks(ts, ticks_per_beat)))
             next == IF later = {}
                     THEN tick + get_duration_ticks(ts, ticks_per_beat)
                     ELSE CHOOSE x \in later : \A y \in later : x <= y
         IN <<tick>> \o Downbeats(next, changes, end_tick, ticks_per_beat)

(* pretty_midi_utils.get_all_time_signatures: one per downbeat. *)
get_all_time_signatures(changes, downbeats) ==
    [i \in 1..Len(downbeats) |->
        TimeSignatureAt(changes, downbeats[i], DefaultTimeSignature)]

(* PrettyMIDI(file_name): IndexError for a file without tracks. *)
PrettyMIDI(file) ==
    IF file.tracks = <<>>
    THEN [kind |-> "IndexError", resolution |-> file.ticks_per_beat,
          instruments |-> <<>>, downbeats |-> <<>>, time_signatures |-> <<>>]
    ELSE LET instruments == DecodeInstruments(file)
             changes == TimeSignatureChanges(file)
             downbeats == Downbeats(0, changes, EndTick(instruments, changes),
                                    file.ticks_per_beat)
         IN [kind |-> "PrettyMIDI", resolution |-> file.ticks_per_beat,
             instruments |-> instruments, downbeats |-> downbeats,
             time_signatures |-> get_all_time_signatures(changes, downbeats)]

----------------------------------------------------------------------------
(* song_midi_converter.py: the importer. *)

DRUM_CHANNEL == 9

NOTE_OFF == 1
MEASURE_START == 2
NOTE_ON == 3

(* A sort key without the event type: instants of one tick by pitch. *)
get_key_without_type(event) ==
    IF event.type = MEASURE_START THEN <<event.tick>>
    ELSE <<event.tick, event.pitch>>

(* The sort key of _get_events, and Python's tuple order on it. *)
get_key(event) ==
    IF event.type = MEASURE_START THEN <<event.tick, event.type>>
    ELSE <<event.tick, event.type, event.pitch>>

RECURSIVE KeyLess(_, _)
KeyLess(a, b) ==
    IF a = <<>> THEN b # <<>>
    ELSE IF b = <<>> THEN FALSE
    ELSE IF Head(a) # Head(b) THEN Head(a) < Head(b)
    ELSE KeyLess(Tail(a), Tail(b))

(* sorted(event_list, key=get_key): stable. *)
RECURSIVE InsertSorted(_, _)
InsertSorted(sorted, event) ==
    IF sorted = <<>> THEN <<event>>
    ELSE IF KeyLess(get_key(event), get_key(Head(sorted)))
    THEN <<event>> \o sorted
    ELSE <<Head(sorted)>> \o InsertSorted(Tail(sorted), event)

RECURSIVE Sorted(_)
Sorted(event_list) ==
    IF event_list = <<>> THEN <<>>
    ELSE InsertSorted(Sorted(SubSeq(event_list, 1, Len(event_list) - 1)),
                      event_list[Len(event_list)])

(* SongMidiConverter._get_events *)
RECURSIVE NoteEvents(_)
NoteEvents(notes) ==
    IF notes = <<>> THEN <<>>
    ELSE LET note == Head(notes)
         IN << [tick |-> note.start, type |-> NOTE_ON, pitch |-> note.pitch,
                velocity |-> note.velocity],
               [tick |-> note.end, type |-> NOTE_OFF, pitch |-> note.pitch,
                velocity |-> note.velocity] >>
            \o NoteEvents(Tail(notes))

get_events(instrument, downbeats) ==
    Sorted(NoteEvents(instrument.notes)
           \o [i \in 1..Len(downbeats) |->
                 [tick |-> downbeats[i], type |-> MEASURE_START, pitch |-> -1,
                  velocity |-> -1]])

(* _write_event without lines 204-208: no tie for a sounding pitch. *)
write_event_without_ties(s, t, m, delta_duration, notes_to_add, keys, sounding) ==
    LET e == Len(s.tracks[t].measures[m].events) + 1
    IN [new_event(s, t, m, delta_duration)
          EXCEPT !.tracks[t].measures[m].events[e].notes = notes_to_add]

(* _write_event without the test of line 206: a tie for every sounding     *)
(* pitch, written or not.                                                  *)
write_event_tying_every_sounding(s, t, m, delta_duration, notes_to_add, keys, sounding) ==
    LET ties == SelectSeq(keys, LAMBDA pitch : pitch \in sounding)
        e == Len(s.tracks[t].measures[m].events) + 1
    IN [new_event(s, t, m, delta_duration)
          EXCEPT !.tracks[t].measures[m].events[e].notes =
                    notes_to_add \o [i \in 1..Len(ties) |-> Note(ties[i], -1, TRUE)]]

(* SongMidiConverter._write_event on measure m of track t of s;          *)
(* keys is the key order of the sounding_notes dict, sounding the pitches  *)
(* whose value is True.                                                    *)
write_event(s, t, m, delta_duration, notes_to_add, keys, sounding) ==
    LET pitches_written ==
            {notes_to_add[i].midi_pitch : i \in 1..Len(notes_to_add)}
        ties == SelectSeq(keys, LAMBDA pitch : pitch \in sounding
                                               /\ pitch \notin pitches_written)
        e == Len(s.tracks[t].measures[m].events) + 1
    IN [new_event(s, t, m, delta_duration)
          EXCEPT !.tracks[t].measures[m].events[e].notes =
                    notes_to_add \o [i \in 1..Len(ties) |-> Note(ties[i], -1, TRUE)]]

(* del notes_to_add[i] for the first / the last note of the pitch. *)
RECURSIVE RemoveFirst(_, _)
RemoveFirst(notes, pitch) ==
    IF notes = <<>> THEN <<>>
    ELSE IF Head(notes).midi_pitch = pitch THEN Tail(notes)
    ELSE <<Head(notes)>> \o RemoveFirst(Tail(notes), pitch)

RECURSIVE RemoveLast(_, _)
RemoveLast(notes, pitch) ==
    IF notes = <<>> THEN <<>>
    ELSE IF notes[Len(notes)].midi_pitch = pitch
    THEN SubSeq(notes, 1, Len(notes) - 1)
    ELSE Append(RemoveLast(SubSeq(notes, 1, Len(notes) - 1), pitch),
                notes[Len(notes)])

AddKey(keys, pitch) ==
    IF \E i \in 1..Len(keys) : keys[i] = pitch THEN keys ELSE Append(keys, pitch)

(* The snapshot of the first note-off at a tick, lines 285-292. *)
Snapshot(sw) ==
    LET on == SelectSeq(sw.keys, LAMBDA pitch : pitch \in sw.sounding)
    IN [sw EXCEPT !.first_note_off_at_tick = FALSE,
                  !.notes_to_add = @ \o [i \in 1..Len(on) |-> Note(on[i], -1, TRUE)]]

(* Lines 280-303: a NOTE_OFF instant. *)
SweepNoteOff(sw, event) ==
    LET sw1 == IF sw.first_note_off_at_tick THEN Snapshot(sw) ELSE sw
    IN [sw1 EXCEPT !.notes_to_add = RemoveFirst(@, event.pitch),
                   !.keys = AddKey(@, event.pitch),
                   !.sounding = @ \ {event.pitch}]

(* Lines 305-308: a MEASURE_START instant. *)
SweepMeasureStart(sw, t, time_signatures) ==
    IF sw.measure_idx + 2 > Len(time_signatures)
    THEN [sw EXCEPT !.error = "IndexError"]
    ELSE [sw EXCEPT !.measure_idx = @ + 1,
                    !.song = new_measure(@, t, time_signatures[sw.measure_idx + 2])]

(* A NOTE_ON instant that leaves the velocity of the new Note at its       *)
(* default.                                                                *)
SweepNoteOnWithoutVelocity(sw, event) ==
    [sw EXCEPT !.notes_to_add = Append(RemoveLast(@, event.pitch),
                                       Note(event.pitch, -1, FALSE)),
               !.keys = AddKey(@, event.pitch),
               !.sounding = @ \cup {event.pitch}]

(* Lines 310-320: a NOTE_ON instant. *)
SweepNoteOn(sw, event) ==
    [sw EXCEPT !.notes_to_add = Append(RemoveLast(@, event.pitch),
                                       Note(event.pitch, event.velocity, FALSE)),
               !.keys = AddKey(@, event.pitch),
               !.sounding = @ \cup {event.pitch}]

(* SweepStep that commits no Event for a silent gap before a               *)
(* MEASURE_START: the trailing rest of a measure is left implicit.         *)
SweepStepWithImplicitRests(sw, t, event, time_signatures) ==
    LET silent == /\ event.type = MEASURE_START
                  /\ sw.notes_to_add = <<>> /\ sw.sounding = {}
        sw1 ==
            IF event.tick > sw.prev_tick /\ ~silent
            THEN IF sw.measure_idx = -1
                 THEN [sw EXCEPT !.error = "AttributeError"]
                 ELSE [sw EXCEPT
                         !.song = write_event(@, t, sw.measure_idx + 1,
                                              event.tick - sw.prev_tick,
                                              sw.notes_to_add, sw.keys, sw.sounding),
                         !.notes_to_add = <<>>,
                         !.first_note_off_at_tick = TRUE]
            ELSE sw
        sw2 == IF sw1.error # "none" THEN sw1
               ELSE IF event.type = NOTE_OFF THEN SweepNoteOff(sw1, event)
               ELSE IF event.type = MEASURE_START
               THEN SweepMeasureStart(sw1, t, time_signatures)
               ELSE SweepNoteOn(sw1, event)
    IN IF sw2.error # "none" THEN sw2 ELSE [sw2 EXCEPT !.prev_tick = event.tick]

(* Lines 267-322: one instant of the sweep of track t. *)
SweepStep(sw, t, event, time_signatures) ==
    LET sw1 ==
            IF event.tick > sw.prev_tick
            THEN IF sw.measure_idx = -1
                 THEN [sw EXCEPT !.error = "AttributeError"]
                 ELSE [sw EXCEPT
                         !.song = write_event(@, t, sw.measure_idx + 1,
                                              event.tick - sw.prev_tick,
                                              sw.notes_to_add, sw.keys, sw.sounding),
                         !.notes_to_add = <<>>,
                         !.first_note_off_at_tick = TRUE]
            ELSE sw
        sw2 == IF sw1.error # "none" THEN sw1
               ELSE IF event.type = NOTE_OFF THEN SweepNoteOff(sw1, event)
               ELSE IF event.type = MEASURE_START
               THEN SweepMeasureStart(sw1, t, time_signatures)
               ELSE SweepNoteOn(sw1, event)
    IN IF sw2.error # "none" THEN sw2 ELSE [sw2 EXCEPT !.prev_tick = event.tick]

RECURSIVE Sweep(_, _, _, _)
Sweep(sw, t, events, time_signatures) ==
    IF events = <<>> \/ sw.error # "none" THEN sw
    ELSE Sweep(SweepStep(sw, t, Head(events), time_signatures), t, Tail(events),
               time_signatures)

(* Lines 233-332: the loop over the instruments; st carries the song, the  *)
(* next free channel and the error raised, if any.                         *)
RECURSIVE ImportInstruments(_, _, _, _)
ImportInstruments(st, instruments, downbeats, time_signatures) ==
    IF instruments = <<>> \/ st.error # "none" THEN st
    ELSE LET instrument == Head(instruments)
             this_channel == IF instrument.is_drum THEN DRUM_CHANNEL ELSE st.channel
             s1 == new_track(st.song, instrument.name, instrument.program,
                             this_channel, instrument.track_type)
             t == Len(s1.tracks)
             sw0 == [song |-> s1, keys |-> <<>>, sounding |-> {}, prev_tick |-> 0,
                     measure_idx |-> -1, notes_to_add |-> <<>>,
                     first_note_off_at_tick |-> TRUE, error |-> "none"]
             sw == Sweep(sw0, t, get_events(instrument, downbeats), time_signatures)
             error == IF sw.error # "none" THEN sw.error
                      ELSE IF sw.sounding # {} THEN "AssertionError"
                      ELSE "none"
             channel == IF st.channel + 1 = DRUM_CHANNEL
                        THEN DRUM_CHANNEL + 1 ELSE st.channel + 1
         IN ImportInstruments([song |-> sw.song, channel |-> channel,
                               error |-> error],
                              Tail(instruments), downbeats, time_signatures)

(* SongMidiConverter.create_song_from_pretty_midi_instruments; midi holds  *)
(* the resolution, the downbeats and the time signatures, the instruments  *)
(* carry their track type.                                                 *)
create_song_from_pretty_midi_instruments(midi, instrument_and_type_list, name) ==
    LET st == ImportInstruments(
                  [song |-> Song(name, midi.resolution), channel |-> 0,
                   error |-> "none"],
                  instrument_and_type_list, midi.downbeats, midi.time_signatures)
    IN IF st.error # "none" THEN [kind |-> st.error, val |-> <<>>]
       ELSE [kind |-> "Song", val |-> st.song]

(* create_song_from_midi, lines 153-158: DRUMS for a drum instrument,      *)
(* UNKNOWN for any other.                                                  *)
instrument_and_type_list(midi) ==
    [i \in 1..Len(midi.instruments) |->
        [name |-> midi.instruments[i].name,
         program |-> midi.instruments[i].program,
         is_drum |-> midi.instruments[i].is_drum,
         notes |-> midi.instruments[i].notes,
         track_type |-> IF midi.instruments[i].is_drum
                        THEN "DRUMS" ELSE "UNKNOWN"]]

(* SongMidiConverter.create_song_from_midi *)
create_song_from_midi(file) ==
    LET midi == PrettyMIDI(file)
    IN IF midi.kind = "IndexError" THEN [kind |-> "Song", val |-> Song("", 480)]
       ELSE create_song_from_pretty_midi_instruments(
                midi, instrument_and_type_list(midi), "")

----------------------------------------------------------------------------
(* Equality of the score model: Note, Event, Measure, Track, Song __eq__.  *)

NoteEq(n1, n2) ==
    /\ n1.midi_pitch = n2.midi_pitch
    /\ n1.velocity = n2.velocity
    /\ n1.tie_from_previous = n2.tie_from_previous

EventEq(e1, e2) ==
    /\ e1.duration = e2.duration
    /\ Len(e1.notes) = Len(e2.notes)
    /\ \A i \in 1..Len(e1.notes) :
          \E j \in 1..Len(e2.notes) : NoteEq(e1.notes[i], e2.notes[j])

(* The length left after the trailing rests are dropped, lines 166-180. *)
RECURSIVE TrimmedLen(_)
TrimmedLen(events) ==
    IF events = <<>> THEN 0
    ELSE IF events[Len(events)].notes = <<>>
    THEN TrimmedLen(SubSeq(events, 1, Len(events) - 1))
    ELSE Len(events)

(* Measure.__eq__ comparing every event, the trailing rests included. *)
MeasureEqWithTrailingRests(m1, m2) ==
    /\ Len(m1.events) = Len(m2.events)
    /\ \A i \in 1..Len(m1.events) : EventEq(m1.events[i], m2.events[i])

(* Measure.__eq__ comparing the time signatures as well. *)
MeasureEqWithTimeSignature(m1, m2) ==
    /\ m1.time_signature = m2.time_signature
    /\ TrimmedLen(m1.events) = TrimmedLen(m2.events)
    /\ \A i \in 1..TrimmedLen(m1.events) : EventEq(m1.events[i], m2.events[i])

MeasureEq(m1, m2) ==
    /\ TrimmedLen(m1.events) = TrimmedLen(m2.events)
    /\ \A i \in 1..TrimmedLen(m1.events) : EventEq(m1.events[i], m2.events[i])

TrackEq(t1, t2) ==
    /\ t1.name = t2.name
    /\ t1.program = t2.program
    /\ t1.channel = t2.channel
    /\ t1.track_type = t2.track_type
    /\ Len(t1.measures) = Len(t2.measures)
    /\ \A i \in 1..Len(t1.measures) : MeasureEq(t1.measures[i], t2.measures[i])

SongEq(s1, s2) ==
    /\ s1.name = s2.name
    /\ s1.time_signature = s2.time_signature
    /\ s1.key = s2.key
    /\ Len(s1.tracks) = Len(s2.tracks)
    /\ s1.ticks_per_beat = s2.ticks_per_beat
    /\ \A i \in 1..Len(s1.tracks) :
          \E j \in 1..Len(s2.tracks) : TrackEq(s1.tracks[i], s2.tracks[j])

----------------------------------------------------------------------------
(* The state machine: a caller builds a Song with the append operations,   *)
(* then converts it back and forth.                                        *)

TicksPerBeat == 480

(* The grid of the note intervals handed to the importer: a dotted eighth. *)
TickStep == 3 * (TicksPerBeat \div 4)

(* What the caller passes to the append operations: an onset of velocity   *)
(* 100, a tie of velocity -1 and a tie that carries a velocity; a dotted    *)
(* quarter and a half note; the default time signature and 3/8.            *)
TrackNames == {"Track 0"}
Programs == {0}
TrackKinds == {<<0, "UNKNOWN">>, <<9, "DRUMS">>, <<16, "UNKNOWN">>}
TimeSigArgs == {NoTimeSignature, TimeSignature(3, 8)}
Durations == {3 * (TicksPerBeat \div 2), 2 * TicksPerBeat}
NoteKinds == {<<100, FALSE>>, <<-1, TRUE>>, <<100, TRUE>>}

RECURSIVE SumSeq(_)
SumSeq(q) == IF q = <<>> THEN 0 ELSE Head(q) + SumSeq(Tail(q))

NumMeasures(s) == SumSeq([t \in 1..Len(s.tracks) |-> Len(s.tracks[t].measures)])

NumEvents(s) ==
    SumSeq([t \in 1..Len(s.tracks) |->
              SumSeq([m \in 1..Len(s.tracks[t].measures) |->
                        Len(s.tracks[t].measures[m].events)])])

NumNotes(s) ==
    SumSeq([t \in 1..Len(s.tracks) |->
              SumSeq([m \in 1..Len(s.tracks[t].measures) |->
                        SumSeq([e \in 1..Len(s.tracks[t].measures[m].events) |->
                                  Len(s.tracks[t].measures[m].events[e].notes)])])])

(* The songs the model builds. *)
InBounds(s) ==
    /\ Len(s.tracks) <= MaxTracks
    /\ NumMeasures(s) <= MaxMeasures
    /\ NumEvents(s) <= MaxEvents
    /\ NumNotes(s) <= MaxNotes

NoSong == Song("", 0)
NoPrettyMIDI == [resolution |-> 0, instruments |-> <<>>, downbeats |-> <<>>,
                 time_signatures |-> <<>>]
NoStream == [ticks_per_beat |-> 0, tracks |-> <<>>]
NoCall == [op |-> "none"]

Init ==
    /\ root = "song"
    /\ song = Song("", TicksPerBeat)
    /\ pm = NoPrettyMIDI
    /\ stream = NoStream
    /\ trail = <<>>
    /\ call = NoCall

(* s.new_track(name, program, channel, track_type) *)
NewTrack ==
    /\ root = "song" /\ trail = <<>>
    /\ \E name \in TrackNames, program \in Programs, kind \in TrackKinds :
          song' = new_track(song, name, program, kind[1], kind[2])
    /\ InBounds(song')
    /\ UNCHANGED <<root, pm, stream, trail, call>>

(* track.new_measure(time_signature) on the newest track *)
NewMeasure ==
    /\ root = "song" /\ trail = <<>>
    /\ song.tracks # <<>>
    /\ \E time_signature \in TimeSigArgs :
          song' = new_measure(song, Len(song.tracks), time_signature)
    /\ InBounds(song')
    /\ UNCHANGED <<root, pm, stream, trail, call>>

(* measure.new_event(duration) on the newest measure of the newest track *)
NewEvent ==
    /\ root = "song" /\ trail = <<>>
    /\ song.tracks # <<>>
    /\ song.tracks[Len(song.tracks)].measures # <<>>
    /\ \E duration \in Durations :
          song' = new_event(song, Len(song.tracks),
                            Len(song.tracks[Len(song.tracks)].measures), duration)
    /\ InBounds(song')
    /\ UNCHANGED <<root, pm, stream, trail, call>>

(* event.new_note(midi_pitch, velocity, tie_from_previous) on the newest event *)
NewNote ==
    /\ root = "song" /\ trail = <<>>
    /\ song.tracks # <<>>
    /\ song.tracks[Len(song.tracks)].measures # <<>>
    /\ LET t == Len(song.tracks)
           m == Len(song.tracks[t].measures)
           e == Len(song.tracks[t].measures[m].events)
       IN /\ e > 0
          /\ \E midi_pitch \in Pitches, kind \in NoteKinds :
                song' = new_note(song, t, m, e, midi_pitch, kind[1], kind[2])
    /\ InBounds(song')
    /\ UNCHANGED <<root, pm, stream, trail, call>>

(* The object the next conversion reads. *)
Current ==
    IF trail # <<>> THEN trail[Len(trail)]
    ELSE IF root = "song" THEN [kind |-> "Song", val |-> song]
    ELSE IF root = "midi"
    THEN [kind |-> IF stream.tracks[1].msgs[Len(stream.tracks[1].msgs)] = end_of_track
                   THEN "MidiFile" ELSE "Unsaved",
          val |-> stream]
    ELSE [kind |-> "PrettyMIDI", val |-> pm]

(* SongMidiConverter.export_midi(song, file_name) *)
ExportMidi ==
    /\ Len(trail) < MaxTrail
    /\ Current.kind = "Song"
    /\ trail' = Append(trail, export_midi(Current.val))
    /\ UNCHANGED <<root, song, pm, stream, call>>

(* SongMidiConverter.create_song_from_midi(file_name) *)
CreateSongFromMidi ==
    /\ Len(trail) < MaxTrail
    /\ Current.kind = "MidiFile"
    /\ trail' = Append(trail, create_song_from_midi(Current.val))
    /\ UNCHANGED <<root, song, pm, stream, call>>

Next == NewTrack \/ NewMeasure \/ NewEvent \/ NewNote \/ ExportMidi \/ CreateSongFromMidi

Spec == Init /\ [][Next]_vars

----------------------------------------------------------------------------
(* The layout of a score: a caller builds a Song of several tracks, each   *)
(* with its measures and at most a rest, and exports it.                   *)

ScoreInBounds(s) ==
    /\ Len(s.tracks) <= MaxScoreTracks
    /\ \A t \in 1..Len(s.tracks) : Len(s.tracks[t].measures) <= MaxScoreMeasures
    /\ NumEvents(s) <= MaxScoreEvents

(* s.new_track(name, program, channel, track_type) *)
ScoreNewTrack ==
    /\ root = "song" /\ trail = <<>>
    /\ \E name \in TrackNames, program \in Programs, kind \in TrackKinds :
          song' = new_track(song, name, program, kind[1], kind[2])
    /\ ScoreInBounds(song')
    /\ UNCHANGED <<root, pm, stream, trail, call>>

(* track.new_measure(time_signature) on the newest track *)
ScoreNewMeasure ==
    /\ root = "song" /\ trail = <<>>
    /\ song.tracks # <<>>
    /\ \E time_signature \in TimeSigArgs :
          song' = new_measure(song, Len(song.tracks), time_signature)
    /\ ScoreInBounds(song')
    /\ UNCHANGED <<root, pm, stream, trail, call>>

(* measure.new_event(duration) on the newest measure of the newest track *)
ScoreNewEvent ==
    /\ root = "song" /\ trail = <<>>
    /\ song.tracks # <<>>
    /\ song.tracks[Len(song.tracks)].measures # <<>>
    /\ \E duration \in Durations :
          song' = new_event(song, Len(song.tracks),
                            Len(song.tracks[Len(song.tracks)].measures), duration)
    /\ ScoreInBounds(song')
    /\ UNCHANGED <<root, pm, stream, trail, call>>

NextScore == ScoreNewTrack \/ ScoreNewMeasure \/ ScoreNewEvent \/ ExportMidi

SpecScore == Init /\ [][NextScore]_vars

----------------------------------------------------------------------------
(* Song.adjust_ties_, clean_ties and force_smooth_harmony (song.py, lines  *)
(* 106-131); the song is changed in place, the operators give the song     *)
(* after the call.                                                         *)

(* Lines 115-119: one note, prev_sounding_notes being the pitches of the   *)
(* event before.                                                           *)
AdjustNote(note, prev_sounding_notes, clean_up, smooth_harmony) ==
    IF note.midi_pitch \in prev_sounding_notes
    THEN IF smooth_harmony THEN [note EXCEPT !.tie_from_previous = TRUE] ELSE note
    ELSE IF clean_up THEN [note EXCEPT !.tie_from_previous = FALSE] ELSE note

(* Lines 112-121: the events of a measure in order; the result carries the *)
(* adjusted events and the pitches of the last event.                      *)
RECURSIVE AdjustEvents(_, _, _, _)
AdjustEvents(events, prev_sounding_notes, clean_up, smooth_harmony) ==
    IF events = <<>> THEN [events |-> <<>>, prev_sounding_notes |-> prev_sounding_notes]
    ELSE LET event == Head(events)
             adjusted == [event EXCEPT !.notes =
                             [i \in 1..Len(event.notes) |->
                                 AdjustNote(event.notes[i], prev_sounding_notes,
                                            clean_up, smooth_harmony)]]
             sounding_notes == {event.notes[i].midi_pitch : i \in 1..Len(event.notes)}
             rest == AdjustEvents(Tail(events), sounding_notes, clean_up, smooth_harmony)
         IN [events |-> <<adjusted>> \o rest.events,
             prev_sounding_notes |-> rest.prev_sounding_notes]

(* Line 111: the measures of a track in order. *)
RECURSIVE AdjustMeasures(_, _, _, _)
AdjustMeasures(measures, prev_sounding_notes, clean_up, smooth_harmony) ==
    IF measures = <<>> THEN <<>>
    ELSE LET done == AdjustEvents(Head(measures).events, prev_sounding_notes,
                                  clean_up, smooth_harmony)
         IN <<[Head(measures) EXCEPT !.events = done.events]>>
            \o AdjustMeasures(Tail(measures), done.prev_sounding_notes,
                              clean_up, smooth_harmony)

(* Song.adjust_ties_ *)
adjust_ties_(s, clean_up, smooth_harmony) ==
    [s EXCEPT !.tracks =
        [t \in 1..Len(s.tracks) |->
            IF smooth_harmony /\ s.tracks[t].track_type # "HARMONY"
            THEN s.tracks[t]
            ELSE [s.tracks[t] EXCEPT !.measures =
                     AdjustMeasures(@, {}, clean_up, smooth_harmony)]]]

(* Song.clean_ties *)
clean_ties(s) == adjust_ties_(s, TRUE, FALSE)

(* force_smooth_harmony without the test of the track type, line 109. *)
force_smooth_every_track(s) ==
    [s EXCEPT !.tracks =
        [t \in 1..Len(s.tracks) |->
            [s.tracks[t] EXCEPT !.measures = AdjustMeasures(@, {}, TRUE, TRUE)]]]

(* Song.force_smooth_harmony *)
force_smooth_harmony(s) == adjust_ties_(s, TRUE, TRUE)

----------------------------------------------------------------------------
(* Ties: a caller builds a Song of harmony and melody tracks and then      *)
(* cleans its ties or smooths its harmony; trail holds the song after the  *)
(* call.                                                                   *)

MaxTieTracks == 2
MaxTieMeasures == 2
MaxTieEvents == 3
MaxTieNotes == 3

TieTrackKinds == {<<0, "HARMONY">>, <<1, "MELODY">>}
TieNoteKinds == {<<100, FALSE>>, <<-1, TRUE>>, <<0, FALSE>>}
TieDurations == {3 * (TicksPerBeat \div 2)}

TiesInBounds(s) ==
    /\ Len(s.tracks) <= MaxTieTracks
    /\ NumMeasures(s) <= MaxTieMeasures
    /\ NumEvents(s) <= MaxTieEvents
    /\ NumNotes(s) <= MaxTieNotes

(* s.new_track(name, program, channel, track_type) *)
TiesNewTrack ==
    /\ root = "song" /\ trail = <<>>
    /\ \E name \in TrackNames, program \in Programs, kind \in TieTrackKinds :
          song' = new_track(song, name, program, kind[1], kind[2])
    /\ TiesInBounds(song')
    /\ UNCHANGED <<root, pm, stream, trail, call>>

(* track.new_measure(time_signature) on the newest track *)
TiesNewMeasure ==
    /\ root = "song" /\ trail = <<>>
    /\ song.tracks # <<>>
    /\ \E time_signature \in TimeSigArgs :
          song' = new_measure(song, Len(song.tracks), time_signature)
    /\ TiesInBounds(song')
    /\ UNCHANGED <<root, pm, stream, trail, call>>

(* measure.new_event(duration) on the newest measure *)
TiesNewEvent ==
    /\ root = "song" /\ trail = <<>>
    /\ song.tracks # <<>>
    /\ song.tracks[Len(song.tracks)].measures # <<>>
    /\ \E duration \in TieDurations :
          song' = new_event(song, Len(song.tracks),
                            Len(song.tracks[Len(song.tracks)].measures), duration)
    /\ TiesInBounds(song')
    /\ UNCHANGED <<root, pm, stream, trail, call>>

(* event.new_note(midi_pitch, velocity, tie_from_previous) on the newest event *)
TiesNewNote ==
    /\ root = "song" /\ trail = <<>>
    /\ song.tracks # <<>>
    /\ song.tracks[Len(song.tracks)].measures # <<>>
    /\ LET t == Len(song.tracks)
           m == Len(song.tracks[t].measures)
           e == Len(song.tracks[t].measures[m].events)
       IN /\ e > 0
          /\ \E midi_pitch \in Pitches, kind \in TieNoteKinds :
                song' = new_note(song, t, m, e, midi_pitch, kind[1], kind[2])
    /\ TiesInBounds(song')
    /\ UNCHANGED <<root, pm, stream, trail, call>>

(* song.clean_ties() *)
CleanTies ==
    /\ root = "song" /\ trail = <<>>
    /\ trail' = <<[kind |-> "clean_ties", val |-> clean_ties(song)]>>
    /\ UNCHANGED <<root, song, pm, stream, call>>

(* song.force_smooth_harmony() *)
ForceSmoothHarmony ==
    /\ root = "song" /\ trail = <<>>
    /\ trail' = <<[kind |-> "force_smooth_harmony", val |-> force_smooth_harmony(song)]>>
    /\ UNCHANGED <<root, song, pm, stream, call>>

NextTies ==
    \/ TiesNewTrack \/ TiesNewMeasure \/ TiesNewEvent \/ TiesNewNote
    \/ CleanTies \/ ForceSmoothHarmony

SpecTies == Init /\ [][NextTies]_vars

----------------------------------------------------------------------------
(* The importer on its own: a caller hands it note intervals, downbeats    *)
(* from tick 0 and the time signature of every downbeat, then sends the    *)
(* Song through export and import.                                         *)

IntervalTicks == {k * TickStep : k \in 0..MaxTick}
DownbeatTimeSigs == {TimeSignature(3, 8), TimeSignature(3, 16)}

NumIntervals(midi) ==
    SumSeq([i \in 1..Len(midi.instruments) |-> Len(midi.instruments[i].notes)])

InitImport ==
    /\ root = "pm"
    /\ song = NoSong
    /\ pm = [resolution |-> TicksPerBeat, instruments |-> <<>>,
             downbeats |-> <<>>, time_signatures |-> <<>>]
    /\ stream = NoStream
    /\ trail = <<>>
    /\ call = NoCall

(* pretty_midi.Instrument(program, is_drum, name) *)
AddInstrument ==
    /\ root = "pm" /\ trail = <<>>
    /\ Len(pm.instruments) < MaxInstruments
    /\ \E is_drum \in BOOLEAN, name \in TrackNames, program \in Programs :
          pm' = [pm EXCEPT !.instruments =
                    Append(@, [name |-> name, program |-> program,
                               is_drum |-> is_drum, notes |-> <<>>])]
    /\ UNCHANGED <<root, song, stream, trail, call>>

(* instrument.notes.append(pretty_midi.Note(velocity, pitch, start, end))  *)
(* on the newest instrument, start at or before end.                      *)
AddInterval ==
    /\ root = "pm" /\ trail = <<>>
    /\ pm.instruments # <<>>
    /\ NumIntervals(pm) < MaxIntervals
    /\ \E pitch \in Pitches, start \in IntervalTicks, end \in IntervalTicks :
          /\ start <= end
          /\ pm' = [pm EXCEPT !.instruments[Len(pm.instruments)].notes =
                       Append(@, [start |-> start, end |-> end, pitch |-> pitch,
                                  velocity |-> 100])]
    /\ UNCHANGED <<root, song, stream, trail, call>>

(* One more downbeat, a measure of the last time signature after the last  *)
(* one (the first at tick 0), with its own time signature.                 *)
AddDownbeat ==
    /\ root = "pm" /\ trail = <<>>
    /\ Len(pm.downbeats) < MaxDownbeats
    /\ \E time_signature \in DownbeatTimeSigs :
          LET n == Len(pm.downbeats)
              tick == IF n = 0 THEN 0
                      ELSE pm.downbeats[n]
                           + get_duration_ticks(pm.time_signatures[n], pm.resolution)
          IN pm' = [pm EXCEPT !.downbeats = Append(@, tick),
                              !.time_signatures = Append(@, time_signature)]
    /\ UNCHANGED <<root, song, stream, trail, call>>

(* SongMidiConverter.create_song_from_pretty_midi_instruments(midi, list) *)
CreateSongFromPrettyMidiInstruments ==
    /\ Len(trail) < MaxTrail
    /\ Current.kind = "PrettyMIDI"
    /\ trail' = Append(trail, create_song_from_pretty_midi_instruments(
                                 Current.val, instrument_and_type_list(Current.val), ""))
    /\ UNCHANGED <<root, song, pm, stream, call>>

NextImport ==
    \/ AddInstrument \/ AddInterval \/ AddDownbeat
    \/ CreateSongFromPrettyMidiInstruments \/ ExportMidi \/ CreateSongFromMidi

SpecImport == InitImport /\ [][NextImport]_vars

----------------------------------------------------------------------------
(* The channels of an import: a caller lists many instruments, none with a *)
(* note, and converts them.                                                *)

MaxChannelInstruments == 11

(* pretty_midi.Instrument(program, is_drum, name), appended to the list *)
AddSilentInstrument ==
    /\ root = "pm" /\ trail = <<>>
    /\ Len(pm.instruments) < MaxChannelInstruments
    /\ \E is_drum \in BOOLEAN, name \in TrackNames, program \in Programs :
          pm' = [pm EXCEPT !.instruments =
                    Append(@, [name |-> name, program |-> program,
                               is_drum |-> is_drum, notes |-> <<>>])]
    /\ UNCHANGED <<root, song, stream, trail, call>>

NextChannels == AddSilentInstrument \/ CreateSongFromPrettyMidiInstruments

SpecChannels == InitImport /\ [][NextChannels]_vars

----------------------------------------------------------------------------
(* More instruments than channels: a caller lists up to sixteen            *)
(* instruments over one 3/8 measure, a few of them with a note, converts   *)
(* them and exports the song.                                              *)

MaxOverflowInstruments == 16
MaxOverflowDrums == 1
MaxOverflowNoted == 2

OverflowNotes ==
    {<<>>, <<[start |-> 0, end |-> 360, pitch |-> 60, velocity |-> 100]>>}

InitOverflow ==
    /\ root = "pm"
    /\ song = NoSong
    /\ pm = [resolution |-> TicksPerBeat, instruments |-> <<>>,
             downbeats |-> <<0>>, time_signatures |-> <<TimeSignature(3, 8)>>]
    /\ stream = NoStream
    /\ trail = <<>>
    /\ call = NoCall

(* pretty_midi.Instrument(program, is_drum, name) with its notes, appended *)
(* to the list                                                             *)
AddOverflowInstrument ==
    /\ root = "pm" /\ trail = <<>>
    /\ Len(pm.instruments) < MaxOverflowInstruments
    /\ \E is_drum \in BOOLEAN, name \in TrackNames, program \in Programs,
          notes \in OverflowNotes :
          pm' = [pm EXCEPT !.instruments =
                    Append(@, [name |-> name, program |-> program,
                               is_drum |-> is_drum, notes |-> notes])]
    /\ Cardinality({i \in 1..Len(pm'.instruments) : pm'.instruments[i].is_drum})
          <= MaxOverflowDrums
    /\ NumIntervals(pm') <= MaxOverflowNoted
    /\ UNCHANGED <<root, song, stream, trail, call>>

NextOverflow ==
    AddOverflowInstrument \/ CreateSongFromPrettyMidiInstruments \/ ExportMidi

SpecOverflow == InitOverflow /\ [][NextOverflow]_vars

----------------------------------------------------------------------------
(* A MIDI file written by hand, as the repository's tests write one: one   *)
(* track of program_change, time_signature metas and note_on/note_off      *)
(* pairs, closed by end_of_track; then import and export.                  *)

StreamDeltas == {0, 3 * (TicksPerBeat \div 2)}
StreamTimeSigs == {TimeSignature(3, 8), TimeSignature(3, 4)}

StreamMsgs == stream.tracks[1].msgs
StreamTick == IF StreamMsgs = <<>> THEN 0
              ELSE AbsTicks(StreamMsgs, 0)[Len(StreamMsgs)][2]
StreamClosed == StreamMsgs[Len(StreamMsgs)] = end_of_track

(* The pitches a note_on of the stream has opened and no note_off closed. *)
RECURSIVE OpenPitches(_)
OpenPitches(msgs) ==
    IF msgs = <<>> THEN {}
    ELSE LET last == msgs[Len(msgs)]
             before == OpenPitches(SubSeq(msgs, 1, Len(msgs) - 1))
         IN IF MsgType(last) = "note_on" THEN before \cup {last[3]}
            ELSE IF MsgType(last) = "note_off" THEN before \ {last[3]}
            ELSE before

(* A time signature changes on a downbeat of the one in force. *)
OnDownbeat(tick) ==
    LET changes == TimeSignatureChanges(stream)
        n == Len(changes)
    IN IF n = 0 THEN tick % get_duration_ticks(DefaultTimeSignature, TicksPerBeat) = 0
       ELSE /\ tick > changes[n][2]
            /\ (tick - changes[n][2])
                 % get_duration_ticks(changes[n][1], TicksPerBeat) = 0

InitStream ==
    /\ root = "midi"
    /\ song = NoSong
    /\ pm = NoPrettyMIDI
    /\ stream = [ticks_per_beat |-> TicksPerBeat,
                 tracks |-> <<[name |-> "Track 0",
                               msgs |-> <<program_change(0, 0, 0)>>]>>]
    /\ trail = <<>>
    /\ call = NoCall

Appended(msg) ==
    /\ root = "midi" /\ trail = <<>>
    /\ ~StreamClosed
    /\ Len(StreamMsgs) <= MaxMessages
    /\ stream' = [stream EXCEPT !.tracks[1].msgs = Append(@, msg)]
    /\ UNCHANGED <<root, song, pm, trail, call>>

(* track.append(MetaMessage('time_signature', ...)) *)
AppendTimeSignature ==
    \E time_signature \in StreamTimeSigs, time \in StreamDeltas :
        /\ OnDownbeat(StreamTick + time)
        /\ Appended(time_signature_msg(time_signature.numerator,
                                       time_signature.denominator, time))

(* track.append(Message('note_on', ...)) for a pitch that is not sounding *)
AppendNoteOn ==
    \E pitch \in Pitches \ OpenPitches(StreamMsgs), time \in StreamDeltas :
        Appended(note_on(0, pitch, 100, time))

(* track.append(Message('note_off', ...)) for a pitch that is sounding *)
AppendNoteOff ==
    \E pitch \in OpenPitches(StreamMsgs), time \in StreamDeltas :
        Appended(note_off(0, pitch, time))

(* midifile.save(): the writer closes the track with end_of_track. *)
SaveStream ==
    /\ root = "midi" /\ trail = <<>>
    /\ ~StreamClosed
    /\ OpenPitches(StreamMsgs) = {}
    /\ stream' = [stream EXCEPT !.tracks[1].msgs = Append(@, end_of_track)]
    /\ UNCHANGED <<root, song, pm, trail, call>>

NextStream ==
    \/ AppendTimeSignature \/ AppendNoteOn \/ AppendNoteOff \/ SaveStream
    \/ CreateSongFromMidi \/ ExportMidi

SpecStream == InitStream /\ [][NextStream]_vars

----------------------------------------------------------------------------
(* What the properties speak of: the first export of the Song that was     *)
(* built, the Events of a track in playing order, and the messages of a    *)
(* track by absolute tick.                                                 *)

Exported == Len(trail) >= 1 /\ trail[1].kind \in {"MidiFile", "ValueError"}

(* The tick at which the exporter reaches event e of a measure. *)
EventStart(measure, e) ==
    measure.start_tick + SumSeq([k \in 1..(e - 1) |-> measure.events[k].duration])

RECURSIVE TrackEventsFrom(_, _)
TrackEventsFrom(measures, m) ==
    IF m > Len(measures) THEN <<>>
    ELSE [e \in 1..Len(measures[m].events) |->
            [m |-> m, start |-> EventStart(measures[m], e),
             event |-> measures[m].events[e]]]
         \o TrackEventsFrom(measures, m + 1)

TrackEvents(track) == TrackEventsFrom(track.measures, 1)

EventTicks(measure) ==
    SumSeq([k \in 1..Len(measure.events) |-> measure.events[k].duration])

NotesOf(event, pitch) ==
    {i \in 1..Len(event.notes) : event.notes[i].midi_pitch = pitch}

HoldsPitch(measure, pitch) ==
    \E e \in 1..Len(measure.events) : NotesOf(measure.events[e], pitch) # {}

IsOnsetOf(event, pitch) ==
    /\ Cardinality(NotesOf(event, pitch)) = 1
    /\ \A i \in NotesOf(event, pitch) :
          ~event.notes[i].tie_from_previous /\ event.notes[i].velocity >= 1

IsTieOf(event, pitch) ==
    /\ Cardinality(NotesOf(event, pitch)) = 1
    /\ \A i \in NotesOf(event, pitch) : event.notes[i].tie_from_previous

(* Events a..b of the track are a tie chain of the pitch: an onset, then a *)
(* tie in every following Event up to b, and the pitch nowhere else.       *)
Chain(track, pitch, a, b) ==
    LET ev == TrackEvents(track)
    IN /\ a <= b
       /\ IsOnsetOf(ev[a].event, pitch)
       /\ \A k \in (a + 1)..b : IsTieOf(ev[k].event, pitch)
       /\ \A k \in (1..Len(ev)) \ (a..b) : NotesOf(ev[k].event, pitch) = {}

(* Every measure the chain leaves is exactly filled by its Events, and the *)
(* measure in which it ends is not over-filled.                            *)
KeptWhole(track, ticks_per_beat, a, b) ==
    LET ev == TrackEvents(track)
        full(m) == get_duration_ticks(track.measures[m].time_signature,
                                      ticks_per_beat)
    IN /\ \A m \in ev[a].m..(ev[b].m - 1) : EventTicks(track.measures[m]) = full(m)
       /\ EventTicks(track.measures[ev[b].m]) <= full(ev[b].m)

(* The absolute ticks of the messages of one type for one pitch, in order. *)
TicksOf(msgs, type, pitch) ==
    LET timed == AbsTicks(msgs, 0)
        sel == SelectSeq(timed, LAMBDA x : MsgType(x[1]) = type /\ x[1][3] = pitch)
    IN [i \in 1..Len(sel) |-> sel[i][2]]

NumNoteOns(msgs) == Len(SelectSeq(msgs, LAMBDA x : MsgType(x) = "note_on"))

NumOnsets(track) ==
    LET ev == TrackEvents(track)
    IN SumSeq([k \in 1..Len(ev) |->
                 Len(SelectSeq(ev[k].event.notes,
                               LAMBDA n : ~n.tie_from_previous /\ n.velocity > 0))])

ChainExported(track, msgs, ticks_per_beat, whole) ==
    LET ev == TrackEvents(track)
    IN \A pitch \in Pitches : \A a \in 1..Len(ev) : \A b \in a..Len(ev) :
          (Chain(track, pitch, a, b)
           /\ (whole => KeptWhole(track, ticks_per_beat, a, b)))
          => /\ TicksOf(msgs, "note_on", pitch) = <<ev[a].start>>
             /\ TicksOf(msgs, "note_off", pitch)
                  = <<ev[b].start + ev[b].event.duration>>

TieCorrect(whole) ==
    Exported =>
       \A t \in 1..Len(song.tracks) :
          song.tracks[t].channel <= 15 =>
             /\ NumNoteOns(trail[1].val.tracks[t].msgs) = NumOnsets(song.tracks[t])
             /\ ChainExported(song.tracks[t], trail[1].val.tracks[t].msgs,
                              song.ticks_per_beat, whole)

(* C6 (as amended): a Note with tie-from-previous never produces a         *)
(* note_on, whatever its velocity; and a pitch with one onset Note         *)
(* followed by tie Notes in the consecutive following Events produces      *)
(* exactly one note_on, at the onset tick, and exactly one note_off, at    *)
(* the tick where the chain ends, provided every measure the chain leaves  *)
(* is exactly filled and the measure where it ends is not over-filled.     *)
C6_TieCorrectness == TieCorrect(TRUE)

(* C6 as stated: the same for every chain, across any measure boundary. *)
C6_AnyMeasureBoundary == TieCorrect(FALSE)

(* A chain that crosses a measure boundary while another pitch of its      *)
(* first Event ends, exported.                                             *)
C6_Witness ==
    /\ Exported
    /\ \E t \in 1..Len(song.tracks) :
          LET ev == TrackEvents(song.tracks[t])
          IN /\ song.tracks[t].channel <= 15
             /\ \E pitch \in Pitches, other \in Pitches :
                   \E a \in 1..Len(ev) : \E b \in (a + 1)..Len(ev) :
                      /\ Chain(song.tracks[t], pitch, a, b)
                      /\ KeptWhole(song.tracks[t], song.ticks_per_beat, a, b)
                      /\ ev[a].m < ev[b].m
                      /\ other # pitch
                      /\ NotesOf(ev[a].event, other) # {}
                      /\ NotesOf(ev[a + 1].event, other) = {}
                      /\ \E i \in NotesOf(ev[b].event, pitch) :
                            ev[b].event.notes[i].velocity = 100

(* Scenario 1: one track on a MIDI channel, one 3/8 measure at 480 ticks   *)
(* per beat, one Event of 720 ticks with Note(60, 100).                    *)
Scenario1 ==
    /\ song.ticks_per_beat = 480
    /\ Len(song.tracks) = 1
    /\ song.tracks[1].channel <= 15
    /\ Len(song.tracks[1].measures) = 1
    /\ song.tracks[1].measures[1].time_signature = TimeSignature(3, 8)
    /\ song.tracks[1].measures[1].events
         = <<[duration |-> 720, notes |-> <<Note(60, 100, FALSE)>>]>>

Scenario1Messages(with_time_signature) ==
    LET channel == song.tracks[1].channel
    IN << <<"program_change", channel, song.tracks[1].program, 0>> >>
       \o (IF with_time_signature THEN << <<"time_signature", 3, 8, 0>> >> ELSE <<>>)
       \o << <<"note_on", channel, 60, 100, 0>>, <<"note_off", channel, 60, 0, 720>>,
             <<"end_of_track", 0>> >>

Scenario1Yields(with_time_signature) ==
    (Scenario1 /\ Len(trail) >= 1) =>
        /\ trail[1].kind = "MidiFile"
        /\ Len(trail[1].val.tracks) = 1
        /\ trail[1].val.tracks[1].msgs = Scenario1Messages(with_time_signature)

C8_NonNegativeDeltas == Exported => Savable(trail[1].val)

----------------------------------------------------------------------------
(* Round trips that start from a Song: trail is <<export, import, export>>. *)

Imported == Len(trail) >= 2 /\ trail[1].kind = "MidiFile"

(* A well-formed Song: every Note is an onset with a velocity in 1..127 or *)
(* a tie of velocity -1 on a pitch held by the preceding Event of its      *)
(* track, and no measure holds more ticks than its duration.               *)
WellFormedTrack(track, ticks_per_beat) ==
    LET ev == TrackEvents(track)
    IN /\ \A k \in 1..Len(ev) : \A i \in 1..Len(ev[k].event.notes) :
             LET note == ev[k].event.notes[i]
             IN IF note.tie_from_previous
                THEN /\ note.velocity = -1
                     /\ k > 1
                     /\ NotesOf(ev[k - 1].event, note.midi_pitch) # {}
                ELSE note.velocity \in 1..127
       /\ \A m \in 1..Len(track.measures) :
             EventTicks(track.measures[m])
               <= get_duration_ticks(track.measures[m].time_signature,
                                     ticks_per_beat)

WellFormed(s) ==
    \A t \in 1..Len(s.tracks) : WellFormedTrack(s.tracks[t], s.ticks_per_beat)

(* Every track is on a MIDI channel, begins with an onset and holds a Note *)
(* in every measure.                                                       *)
EveryMeasureSounds(s) ==
    \A t \in 1..Len(s.tracks) :
        /\ s.tracks[t].channel <= 15
        /\ TrackEvents(s.tracks[t]) # <<>>
        /\ \E pitch \in Pitches :
              IsOnsetOf(TrackEvents(s.tracks[t])[1].event, pitch)
        /\ \A m \in 1..Len(s.tracks[t].measures) :
              \E pitch \in Pitches : HoldsPitch(s.tracks[t].measures[m], pitch)

(* C1 as stated: for a well-formed Song, export, import, export yields the *)
(* message sequence of the first export: same messages, order and deltas.  *)
C1_RoundTripA ==
    (WellFormed(song) /\ EveryMeasureSounds(song) /\ Imported) =>
        /\ trail[2].kind = "Song"
        /\ Len(trail) >= 3 => trail[3] = trail[1]

(* C2 as stated: export then import of a Song yields a Song equal to it    *)
(* under Song equality, once the name is copied over.                      *)
C2_SongRoundTrip ==
    (WellFormed(song) /\ EveryMeasureSounds(song) /\ Imported) =>
        /\ trail[2].kind = "Song"
        /\ SongEq(song, [trail[2].val EXCEPT !.name = song.name])

(* The sound of a track: the <<pitch, onset tick, offset tick, velocity>>  *)
(* of every note_on paired with the next note_off of its pitch.            *)
Intervals(msgs) ==
    LET timed == AbsTicks(msgs, 0)
        n == Len(timed)
        on(j) == MsgType(timed[j][1]) = "note_on"
        off(j, k) == /\ MsgType(timed[k][1]) = "note_off"
                     /\ timed[k][1][3] = timed[j][1][3]
        pairs == {jk \in (1..n) \X (1..n) :
                    /\ jk[1] < jk[2]
                    /\ on(jk[1])
                    /\ off(jk[1], jk[2])
                    /\ \A l \in (jk[1] + 1)..(jk[2] - 1) : ~off(jk[1], l)}
    IN {<<timed[jk[1]][1][3], timed[jk[1]][2], timed[jk[2]][2],
          timed[jk[1]][1][4]>> : jk \in pairs}

(* The sounds of the tracks of a file that sound at all, in track order. *)
Sound(file) ==
    LET all == [i \in 1..Len(file.tracks) |-> Intervals(file.tracks[i].msgs)]
    IN SelectSeq(all, LAMBDA x : x # {})

(* C5 as stated: export then import preserves the sound, track by track    *)
(* and pitch by pitch.                                                     *)
C5_SoundPreserved ==
    (WellFormed(song) /\ EveryMeasureSounds(song) /\ Imported) =>
        /\ trail[2].kind = "Song"
        /\ Len(trail) >= 3 =>
              /\ trail[3].kind = "MidiFile"
              /\ Sound(trail[3].val) = Sound(trail[1].val)

----------------------------------------------------------------------------
(* The importer's sweep: trail is <<import, export, import>>, the Song of  *)
(* the first import has one track per instrument and one measure per       *)
(* downbeat.                                                               *)

(* Every note interval handed to the importer has start < end. *)
PositiveLengths ==
    \A i \in 1..Len(pm.instruments) : \A n \in 1..Len(pm.instruments[i].notes) :
        pm.instruments[i].notes[n].start < pm.instruments[i].notes[n].end

FirstImport ==
    Len(trail) >= 1 /\ root = "pm" /\ PositiveLengths /\ trail[1].kind = "Song"

Rank(type) == IF type = NOTE_OFF THEN 1 ELSE IF type = MEASURE_START THEN 2 ELSE 3

(* The instants of an instrument are in tick order, and at one tick every  *)
(* NOTE_OFF is before every MEASURE_START, which is before every NOTE_ON.  *)
InstantsOrdered(instrument) ==
    LET events == get_events(instrument, pm.downbeats)
    IN \A a \in 1..Len(events) : \A b \in (a + 1)..Len(events) :
          /\ events[a].tick <= events[b].tick
          /\ events[a].tick = events[b].tick
                => Rank(events[a].type) <= Rank(events[b].type)

(* Another interval of the pitch of note n sounds between two ticks. *)
OtherBetween(instrument, n, from, to) ==
    \E o \in 1..Len(instrument.notes) :
        /\ o # n
        /\ instrument.notes[o].pitch = instrument.notes[n].pitch
        /\ instrument.notes[o].start < to
        /\ instrument.notes[o].end > from

(* The tick at which measure k ends: the next downbeat, if there is one. *)
Horizon == (MaxTick + 1) * TickStep
MeasureEnd(k) == IF k < Len(pm.downbeats) THEN pm.downbeats[k + 1] ELSE Horizon

(* Note n ends on downbeat k: the pitch is in no Event of measure k. *)
EndsOnDownbeat(instrument, track, n, k) ==
    (/\ instrument.notes[n].end = pm.downbeats[k]
     /\ ~OtherBetween(instrument, n, pm.downbeats[k], MeasureEnd(k)))
    => ~HoldsPitch(track.measures[k], instrument.notes[n].pitch)

(* Note n starts on downbeat k: the first Event of measure k holds it as   *)
(* an onset, and no Event of measure k - 1 holds the pitch.                *)
StartsOnDownbeat(instrument, track, n, k) ==
    instrument.notes[n].start = pm.downbeats[k]
    => /\ track.measures[k].events # <<>>
       /\ \E i \in 1..Len(track.measures[k].events[1].notes) :
             track.measures[k].events[1].notes[i]
               = Note(instrument.notes[n].pitch, instrument.notes[n].velocity, FALSE)
       /\ (k > 1 /\ ~OtherBetween(instrument, n, pm.downbeats[k - 1], pm.downbeats[k]))
             => ~HoldsPitch(track.measures[k - 1], instrument.notes[n].pitch)

(* C9: in the merged instant list, at equal tick every NOTE_OFF precedes   *)
(* every MEASURE_START, which precedes every NOTE_ON; so a note that ends  *)
(* on a downbeat is in no Event of the measure opened there, and a note    *)
(* that starts on a downbeat is an onset of the first Event of the new     *)
(* measure and in no Event of the measure before.                          *)
C9_BoundaryOrdering ==
    /\ root = "pm" => \A i \in 1..Len(pm.instruments) : InstantsOrdered(pm.instruments[i])
    /\ FirstImport =>
          \A i \in 1..Len(pm.instruments) :
             \A n \in 1..Len(pm.instruments[i].notes) : \A k \in 1..Len(pm.downbeats) :
                /\ EndsOnDownbeat(pm.instruments[i], trail[1].val.tracks[i], n, k)
                /\ StartsOnDownbeat(pm.instruments[i], trail[1].val.tracks[i], n, k)

(* One note ends and another starts on the second downbeat, imported. *)
C9_Witness ==
    /\ FirstImport
    /\ Len(pm.downbeats) >= 2
    /\ \E i \in 1..Len(pm.instruments) :
          \E n \in 1..Len(pm.instruments[i].notes), o \in 1..Len(pm.instruments[i].notes) :
             /\ pm.instruments[i].notes[n].end = pm.downbeats[2]
             /\ ~OtherBetween(pm.instruments[i], n, pm.downbeats[2], MeasureEnd(2))
             /\ pm.instruments[i].notes[o].start = pm.downbeats[2]
             /\ ~OtherBetween(pm.instruments[i], o, pm.downbeats[1], pm.downbeats[2])

(* Note n holds downbeat k strictly inside. *)
Spans(instrument, n, k) ==
    /\ instrument.notes[n].start < pm.downbeats[k]
    /\ pm.downbeats[k] < instrument.notes[n].end

(* The two tied pieces of a pitch around downbeat k: the last Event of     *)
(* measure k - 1 holds the pitch and ends on the downbeat, the first Event *)
(* of measure k holds the pitch once, as a tie of velocity -1.             *)
TiedPieces(track, pitch, k) ==
    LET before == track.measures[k - 1]
        after == track.measures[k]
    IN /\ before.events # <<>>
       /\ NotesOf(before.events[Len(before.events)], pitch) # {}
       /\ before.start_tick + EventTicks(before) = pm.downbeats[k]
       /\ after.events # <<>>
       /\ Cardinality(NotesOf(after.events[1], pitch)) = 1
       /\ \A j \in NotesOf(after.events[1], pitch) :
             after.events[1].notes[j] = Note(pitch, -1, TRUE)

SplitAtDownbeats(alone) ==
    FirstImport =>
       \A i \in 1..Len(pm.instruments) :
          \A n \in 1..Len(pm.instruments[i].notes) : \A k \in 2..Len(pm.downbeats) :
             (/\ Spans(pm.instruments[i], n, k)
              /\ alone => ~OtherBetween(pm.instruments[i], n,
                                        pm.instruments[i].notes[n].start,
                                        pm.instruments[i].notes[n].end))
             => TiedPieces(trail[1].val.tracks[i], pm.instruments[i].notes[n].pitch, k)

SoundsToTheEnd ==
    /\ pm.downbeats # <<>>
    /\ \A i \in 1..Len(pm.instruments) :
          /\ \E n \in 1..Len(pm.instruments[i].notes) :
                pm.instruments[i].notes[n].end > pm.downbeats[Len(pm.downbeats)]
          /\ \A n \in 1..Len(pm.instruments[i].notes) :
                pm.instruments[i].notes[n].end
                  <= pm.downbeats[Len(pm.downbeats)]
                     + get_duration_ticks(pm.time_signatures[Len(pm.downbeats)],
                                          pm.resolution)

(* C3 as stated: for an importer input with downbeats from tick 0, the     *)
(* Song of import, export, import equals the Song of the first import      *)
(* under Song equality.                                                    *)
C3_RoundTripB ==
    (FirstImport /\ SoundsToTheEnd /\ Len(trail) >= 2) =>
        /\ trail[2].kind = "MidiFile"
        /\ Len(trail) >= 3 =>
              /\ trail[3].kind = "Song"
              /\ SongEq(trail[1].val, trail[3].val)

----------------------------------------------------------------------------
(* A hand-written stream through import and export: trail is               *)
(* <<import, export>>.                                                     *)

(* The stream opens with its time signature, every later time signature   *)
(* differs from the one before, every note_on of it is a note of positive  *)
(* length, and a note sounds after its last time signature.                *)
StreamSounds ==
    /\ root = "midi"
    /\ Len(StreamMsgs) >= 2
    /\ StreamMsgs[2] \in {time_signature_msg(ts.numerator, ts.denominator, 0) :
                             ts \in StreamTimeSigs}
    /\ LET notes == DecodeNotes(AbsTicks(StreamMsgs, 0), <<>>)
           changes == TimeSignatureChanges(stream)
       IN /\ notes # <<>>
          /\ Len(notes) = NumNoteOns(StreamMsgs)
          /\ \A c \in 1..Len(changes) :
                /\ \E n \in 1..Len(notes) : changes[c][2] < notes[n].end
                /\ c > 1 => changes[c][1] # changes[c - 1][1]

(* C4 as stated: importing a stream and exporting the Song reproduces the  *)
(* stream message for message, time_signature messages in their place      *)
(* among the note_off messages of their tick.                              *)
C4_StreamRoundTrip ==
    (StreamSounds /\ Len(trail) >= 1) =>
        /\ trail[1].kind = "Song"
        /\ Len(trail) >= 2 => trail[2] = [kind |-> "MidiFile", val |-> stream]

----------------------------------------------------------------------------
(* The end of the sweep.                                                   *)

(* C11 as stated: for every input whose note intervals have start <= end   *)
(* (zero-length intervals included) and whose downbeats start at tick 0,   *)
(* every sounding flag is false after the sweep and the conversion does    *)
(* not abort.                                                              *)
C11_SweepEndsSilent ==
    (root = "pm" /\ Len(trail) >= 1 /\ pm.downbeats # <<>>) => trail[1].kind = "Song"

----------------------------------------------------------------------------
(* The time signatures of an export.                                       *)

(* The time_signature messages of a track, as <<time signature, tick>>. *)
TimeSignaturesOf(msgs) ==
    LET timed == AbsTicks(msgs, 0)
        sel == SelectSeq(timed, LAMBDA x : MsgType(x[1]) = "time_signature")
    IN [i \in 1..Len(sel) |-> <<[numerator |-> sel[i][1][2],
                                 denominator |-> sel[i][1][3]], sel[i][2]>>]

(* The measures that open with a time signature of their own: the first   *)
(* one and every one that differs from the measure before.                 *)
RECURSIVE SignatureChanges(_, _)
SignatureChanges(measures, m) ==
    IF m > Len(measures) THEN <<>>
    ELSE (IF m = 1 \/ measures[m].time_signature # measures[m - 1].time_signature
          THEN << <<measures[m].time_signature, measures[m].start_tick>> >>
          ELSE <<>>)
         \o SignatureChanges(measures, m + 1)

(* The time signature the messages put in force at a tick. *)
RECURSIVE InForceAt(_, _, _)
InForceAt(changes, tick, current) ==
    IF changes = <<>> THEN current
    ELSE InForceAt(Tail(changes), tick,
                   IF Head(changes)[2] <= tick THEN Head(changes)[1] ELSE current)

OnlyFirstTrack ==
    \A t \in 2..Len(song.tracks) : TimeSignaturesOf(trail[1].val.tracks[t].msgs) = <<>>

FirstTrackSignatures ==
    song.tracks # <<>> =>
       LET first == song.tracks[1]
           sent == TimeSignaturesOf(trail[1].val.tracks[1].msgs)
       IN /\ sent = SignatureChanges(first.measures, 1)
          /\ \A m \in 1..Len(first.measures) :
                InForceAt(sent, first.measures[m].start_tick, NoTimeSignature)
                  = first.measures[m].time_signature

(* C12 as stated: time_signature messages are emitted only in the first    *)
(* track; there one is emitted at the start tick of a measure exactly when *)
(* its time signature differs from the previous measure's (the first       *)
(* measure has no previous one), so that the time signature of every       *)
(* measure is the one in force at its start tick.                          *)
C12_TimeSignatures ==
    Exported => OnlyFirstTrack /\ FirstTrackSignatures

----------------------------------------------------------------------------
(* Key (song_elements.py, lines 37-86). An argument left out (None) is the *)
(* empty tuple, an argument given is a tuple of one value.                 *)

None == <<>>

Some(v) == <<v>>

SharpsRange == -6..6

SHARPS_TO_TONIC_MAJOR == [i \in SharpsRange |-> (7 * i) % 12]

SHARPS_TO_TONIC_MINOR == [i \in SharpsRange |-> (7 * i - 3) % 12]

(* {table[i]: i for i in range(-6, 7)}: a later i overwrites an earlier    *)
(* one with the same tonic.                                                *)
RECURSIVE Inverted(_, _, _)
Inverted(table, i, dict) ==
    IF i > 6 THEN dict
    ELSE Inverted(table, i + 1,
                  [pc \in DOMAIN dict \cup {table[i]} |->
                      IF pc = table[i] THEN i ELSE dict[pc]])

TONIC_TO_SHARPS_MAJOR == Inverted(SHARPS_TO_TONIC_MAJOR, -6, <<>>)

TONIC_TO_SHARPS_MINOR == Inverted(SHARPS_TO_TONIC_MINOR, -6, <<>>)

(* Key.__init__ taking the tonic when both arguments are given. *)
KeyPreferringTonic(tonic_pitch_class, num_sharps, mode) ==
    IF tonic_pitch_class = None /\ num_sharps = None
    THEN [kind |-> "ArgumentError", fields |-> {}]
    ELSE IF tonic_pitch_class # None
    THEN IF tonic_pitch_class[1] >= 0 /\ tonic_pitch_class[1] < 12
         THEN [kind |-> "Key", fields |-> {"mode", "tonic_pitch_class"},
               val |-> [tonic_pitch_class |-> tonic_pitch_class[1], mode |-> mode]]
         ELSE [kind |-> "AssertionError", fields |-> {"mode"}]
    ELSE IF num_sharps[1] > -7 /\ num_sharps[1] < 7
         THEN [kind |-> "Key", fields |-> {"mode", "tonic_pitch_class"},
               val |-> [tonic_pitch_class |->
                            IF mode = "MAJOR"
                            THEN SHARPS_TO_TONIC_MAJOR[num_sharps[1]]
                            ELSE SHARPS_TO_TONIC_MINOR[num_sharps[1]],
                        mode |-> mode]]
         ELSE [kind |-> "AssertionError", fields |-> {"mode"}]

(* Key.__init__; fields are the attributes assigned when it returns or     *)
(* raises.                                                                 *)
Key(tonic_pitch_class, num_sharps, mode) ==
    IF \/ (tonic_pitch_class = None /\ num_sharps = None)
       \/ (tonic_pitch_class # None /\ num_sharps # None)
    THEN [kind |-> "ArgumentError", fields |-> {}]
    ELSE IF tonic_pitch_class # None
    THEN IF tonic_pitch_class[1] >= 0 /\ tonic_pitch_class[1] < 12
         THEN [kind |-> "Key", fields |-> {"mode", "tonic_pitch_class"},
               val |-> [tonic_pitch_class |-> tonic_pitch_class[1], mode |-> mode]]
         ELSE [kind |-> "AssertionError", fields |-> {"mode"}]
    ELSE IF num_sharps[1] > -7 /\ num_sharps[1] < 7
         THEN [kind |-> "Key", fields |-> {"mode", "tonic_pitch_class"},
               val |-> [tonic_pitch_class |->
                            IF mode = "MAJOR"
                            THEN SHARPS_TO_TONIC_MAJOR[num_sharps[1]]
                            ELSE SHARPS_TO_TONIC_MINOR[num_sharps[1]],
                        mode |-> mode]]
         ELSE [kind |-> "AssertionError", fields |-> {"mode"}]

(* Key.number_of_sharps *)
number_of_sharps(key) ==
    IF key.mode = "MAJOR"
    THEN TONIC_TO_SHARPS_MAJOR[key.tonic_pitch_class]
    ELSE TONIC_TO_SHARPS_MINOR[key.tonic_pitch_class]

----------------------------------------------------------------------------
(* Calls of the score model made on their own: a caller makes one call on  *)
(* arguments of its choice; `call` records the call and what it returned.  *)

Modes == {"MAJOR", "MINOR"}

TonicArgs == {None} \cup {Some(pc) : pc \in -1..12}

SharpsArgs == {None} \cup {Some(i) : i \in -7..7}

InitCalls ==
    /\ root = "call"
    /\ song = NoSong
    /\ pm = NoPrettyMIDI
    /\ stream = NoStream
    /\ trail = <<>>
    /\ call = NoCall

(* key = Key(tonic_pitch_class, num_sharps, mode) *)
KeyInit ==
    /\ root = "call" /\ call = NoCall
    /\ \E tonic_pitch_class \in TonicArgs, num_sharps \in SharpsArgs, mode \in Modes :
          call' = [op |-> "Key",
                   tonic_pitch_class |-> tonic_pitch_class,
                   num_sharps |-> num_sharps,
                   mode |-> mode,
                   result |-> Key(tonic_pitch_class, num_sharps, mode)]
    /\ UNCHANGED <<root, song, pm, stream, trail>>

(* key.number_of_sharps() on the key just built *)
NumberOfSharps ==
    /\ root = "call" /\ call.op = "Key"
    /\ call.result.kind = "Key"
    /\ call' = [op |-> "number_of_sharps",
                self |-> call.result.val,
                num_sharps |-> call.num_sharps,
                result |-> number_of_sharps(call.result.val)]
    /\ UNCHANGED <<root, song, pm, stream, trail>>

Numerators == 1..12

Denominators == {1, 2, 4, 8, 16, 32}

TicksPerBeatArgs == {1, 3, 480}

(* measure.get_duration_ticks() for a measure of time signature           *)
(* TimeSignature(numerator, denominator) in a song of ticks_per_beat.      *)
GetDurationTicks ==
    /\ root = "call" /\ call = NoCall
    /\ \E numerator \in Numerators, denominator \in Denominators,
          ticks_per_beat \in TicksPerBeatArgs :
          call' = [op |-> "get_duration_ticks",
                   numerator |-> numerator,
                   denominator |-> denominator,
                   ticks_per_beat |-> ticks_per_beat,
                   result |-> get_duration_ticks(TimeSignature(numerator, denominator),
                                                 ticks_per_beat)]
    /\ UNCHANGED <<root, song, pm, stream, trail>>

VelocityArgs == {None, Some(-1), Some(0), Some(100), Some(127)}

TieArgs == {None, Some(FALSE), Some(TRUE)}

(* Note.__init__ with its defaults velocity=-1, tie_from_previous=False *)
NoteInit(midi_pitch, velocity, tie_from_previous) ==
    Note(midi_pitch,
         IF velocity = None THEN -1 ELSE velocity[1],
         IF tie_from_previous = None THEN FALSE ELSE tie_from_previous[1])

(* note = Event().new_note(midi_pitch, velocity, tie_from_previous), which *)
(* passes its arguments, with the same defaults, to Note.                  *)
EventNewNote ==
    /\ root = "call" /\ call = NoCall
    /\ \E midi_pitch \in Pitches, velocity \in VelocityArgs,
          tie_from_previous \in TieArgs :
          call' = [op |-> "new_note",
                   midi_pitch |-> midi_pitch,
                   velocity |-> velocity,
                   tie_from_previous |-> tie_from_previous,
                   result |-> NoteInit(midi_pitch, velocity, tie_from_previous)]
    /\ UNCHANGED <<root, song, pm, stream, trail>>

MaxCallEvents == 3

(* The events a compared measure is made of: two rests and two events of   *)
(* one note.                                                               *)
EventArgs ==
    {Event(720), Event(960),
     [Event(720) EXCEPT !.notes = <<Note(60, 100, FALSE)>>],
     [Event(720) EXCEPT !.notes = <<Note(64, 100, FALSE)>>]}

EventSeqs == UNION {[1..n -> EventArgs] : n \in 0..MaxCallEvents}

MeasureArgs(time_signatures) ==
    {[Measure(0, ts) EXCEPT !.events = events] :
        ts \in time_signatures, events \in EventSeqs}

(* measure == m2, for two measures built on their own *)
MeasureEqCall ==
    /\ root = "call" /\ call = NoCall
    /\ \E m1 \in MeasureArgs({DefaultTimeSignature}),
          m2 \in MeasureArgs({DefaultTimeSignature, TimeSignature(3, 8)}) :
          call' = [op |-> "Measure.__eq__",
                   self |-> m1,
                   m2 |-> m2,
                   result |-> MeasureEq(m1, m2)]
    /\ UNCHANGED <<root, song, pm, stream, trail>>

MaxCallNotes == 2

NoteArgs == {Note(60, 100, FALSE), Note(64, 100, FALSE), Note(60, -1, TRUE)}

NoteSeqs == UNION {[1..n -> NoteArgs] : n \in 0..MaxCallNotes}

(* event == e2, for two events built on their own with append_note *)
EventEqCall ==
    /\ root = "call" /\ call = NoCall
    /\ \E d1 \in Durations, d2 \in Durations, notes1 \in NoteSeqs, notes2 \in NoteSeqs :
          LET e1 == [Event(d1) EXCEPT !.notes = notes1]
              e2 == [Event(d2) EXCEPT !.notes = notes2]
          IN call' = [op |-> "Event.__eq__",
                      self |-> e1,
                      e2 |-> e2,
                      result |-> EventEq(e1, e2)]
    /\ UNCHANGED <<root, song, pm, stream, trail>>

MaxCallTracks == 2

(* The tracks of a compared song: channel 0 or 1, two measures in 4/4 or   *)
(* 3/8, the second one empty or holding one event of one note.             *)
CallTimeSigs == {TimeSignature(4, 4), TimeSignature(3, 8)}

TrackShapes ==
    [channel : {0, 1}, first : CallTimeSigs, second : CallTimeSigs,
     sounds : BOOLEAN]

(* song.new_track, track.new_measure twice, then new_event and new_note *)
BuiltTrack(s, shape) ==
    LET s1 == new_track(s, "Track 0", 0, shape.channel, "UNKNOWN")
        t == Len(s1.tracks)
        s2 == new_measure(new_measure(s1, t, shape.first), t, shape.second)
    IN IF shape.sounds
       THEN new_note(new_event(s2, t, 2, 3 * (TicksPerBeat \div 2)), t, 2, 1,
                     60, 100, FALSE)
       ELSE s2

RECURSIVE BuiltSong(_, _)
BuiltSong(s, shapes) ==
    IF shapes = <<>> THEN s
    ELSE BuiltSong(BuiltTrack(s, Head(shapes)), Tail(shapes))

SongArgs ==
    {BuiltSong(Song("", TicksPerBeat), shapes) :
        shapes \in UNION {[1..n -> TrackShapes] : n \in 1..MaxCallTracks}}

(* song == s2, for two songs built on their own *)
SongEqCall ==
    /\ root = "call" /\ call = NoCall
    /\ \E s1 \in SongArgs, s2 \in SongArgs :
          call' = [op |-> "Song.__eq__",
                   self |-> s1,
                   s2 |-> s2,
                   result |-> SongEq(s1, s2)]
    /\ UNCHANGED <<root, song, pm, stream, trail>>

NextCalls ==
    \/ EventEqCall
    \/ KeyInit
    \/ NumberOfSharps
    \/ GetDurationTicks
    \/ EventNewNote
    \/ MeasureEqCall
    \/ SongEqCall

SpecCalls == InitCalls /\ [][NextCalls]_vars

----------------------------------------------------------------------------
(* Key and sharps.                                                         *)

(* C13 as stated: for every s in -6..6 and each mode, a Key built from     *)
(* num_sharps = s returns s from number_of_sharps().                       *)
C13_SharpsRoundTrip ==
    (call.op = "number_of_sharps" /\ call.num_sharps # None)
        => call.result = call.num_sharps[1]

----------------------------------------------------------------------------
(* The duration of a measure.                                              *)

Abs(x) == IF x < 0 THEN -x ELSE x

(* C14 as stated: get_duration_ticks() is numerator * 4 / denominator *    *)
(* ticks_per_beat rounded to the nearest integer, that is, no further than *)
(* one half from it, also when the product is not an integer; 3/8 at 480   *)
(* gives 720.                                                              *)
C14_DurationRounded ==
    call.op = "get_duration_ticks" =>
        /\ 2 * Abs(call.result * call.denominator
                     - call.numerator * 4 * call.ticks_per_beat) <= call.denominator
        /\ (call.numerator = 3 /\ call.denominator = 8 /\ call.ticks_per_beat = 480)
              => call.result = 720

----------------------------------------------------------------------------
(* The start ticks of the measures of a track.                             *)

(* The sum of the durations of the first k measures. *)
RECURSIVE DurationsUpTo(_, _, _)
DurationsUpTo(measures, k, ticks_per_beat) ==
    IF k = 0 THEN 0
    ELSE DurationsUpTo(measures, k - 1, ticks_per_beat)
         + get_duration_ticks(measures[k].time_signature, ticks_per_beat)

(* C15: after any sequence of new_measure calls, the first measure of a    *)
(* track starts at tick 0, every later measure starts at the start tick of *)
(* the measure before it plus that measure's duration, and so the start    *)
(* tick of a measure is the sum of the durations of the measures before.   *)
C15_StartTicks ==
    root = "song" =>
      \A t \in 1..Len(song.tracks) :
        LET measures == song.tracks[t].measures
        IN \A k \in 1..Len(measures) :
             /\ k = 1 => measures[k].start_tick = 0
             /\ k > 1 => measures[k].start_tick
                            = measures[k - 1].start_tick
                              + get_duration_ticks(measures[k - 1].time_signature,
                                                   song.ticks_per_beat)
             /\ measures[k].start_tick
                   = DurationsUpTo(measures, k - 1, song.ticks_per_beat)

(* A track of three measures, 4/4, 3/8 and 4/4, starting at 0, 1920 and    *)
(* 2640.                                                                   *)
C15_Witness ==
    /\ root = "song"
    /\ \E t \in 1..Len(song.tracks) :
         LET measures == song.tracks[t].measures
         IN /\ Len(measures) = 3
            /\ measures[1].time_signature = [numerator |-> 4, denominator |-> 4]
            /\ measures[2].time_signature = [numerator |-> 3, denominator |-> 8]
            /\ measures[3].time_signature = [numerator |-> 4, denominator |-> 4]
            /\ <<measures[1].start_tick, measures[2].start_tick,
                 measures[3].start_tick>> = <<0, 1920, 2640>>

----------------------------------------------------------------------------
(* The invariant of a Note.                                                *)

(* C16 as stated: every Note made by new_note or by the constructor, the   *)
(* defaults included, has velocity -1 if it is tied from the previous      *)
(* event and a velocity in 0..127 if it is not.                            *)
C16_NoteInvariant ==
    call.op = "new_note" =>
        /\ call.result.tie_from_previous => call.result.velocity = -1
        /\ ~call.result.tie_from_previous => call.result.velocity \in 0..127

----------------------------------------------------------------------------
(* The notes of an Event.                                                  *)

(* C17 as stated: no Event ever holds two Notes of the same pitch; a Note  *)
(* appended with a pitch already present replaces the earlier one.         *)
C17_DistinctPitches ==
    root = "song" =>
      \A t \in 1..Len(song.tracks) :
        \A m \in 1..Len(song.tracks[t].measures) :
          \A e \in 1..Len(song.tracks[t].measures[m].events) :
            LET notes == song.tracks[t].measures[m].events[e].notes
            IN \A i, j \in 1..Len(notes) :
                 i # j => notes[i].midi_pitch # notes[j].midi_pitch

----------------------------------------------------------------------------
(* Equality of measures.                                                   *)

(* The events up to the last one that holds a note. *)
WithoutTrailingRests(events) ==
    LET sounding == {i \in 1..Len(events) : events[i].notes # <<>>}
        last == IF sounding = {} THEN 0
                ELSE CHOOSE i \in sounding : \A j \in sounding : j <= i
    IN SubSeq(events, 1, last)

(* C18: two Measures compare equal exactly when, once the trailing Events  *)
(* without Notes are dropped from each, they hold the same number of       *)
(* Events and these are equal one by one in order; a rest followed by an   *)
(* Event with Notes is kept. (The Events compared hold at most one Note,   *)
(* so that two of them are equal exactly when they are the same.)          *)
C18_TrailingRestsIgnored ==
    call.op = "Measure.__eq__" =>
        (call.result <=> WithoutTrailingRests(call.self.events)
                           = WithoutTrailingRests(call.m2.events))

(* A measure of a note and two trailing rests compared equal to a measure  *)
(* of one event.                                                           *)
C18_Witness ==
    /\ call.op = "Measure.__eq__"
    /\ Len(call.self.events) = 3
    /\ call.self.events[1].notes # <<>>
    /\ call.self.events[2].notes = <<>>
    /\ call.self.events[3].notes = <<>>
    /\ Len(call.m2.events) = 1
    /\ call.result

(* A rest between two events with notes makes the measures differ. *)
C18_InnerRestKept ==
    /\ call.op = "Measure.__eq__"
    /\ Len(call.self.events) = 3
    /\ call.self.events[2].notes = <<>>
    /\ call.self.events[3].notes # <<>>
    /\ call.m2.events = <<call.self.events[1], call.self.events[3]>>
    /\ ~call.result

----------------------------------------------------------------------------
(* Equality of events.                                                     *)

(* How many times a note occurs among the notes of an event. *)
Occurrences(notes, note) == Cardinality({i \in 1..Len(notes) : notes[i] = note})

(* C19 as stated: two Events compare equal exactly when they have the same *)
(* duration and the same collection of Notes (pitch, velocity, tie flag),  *)
(* in whatever order the Notes were appended.                              *)
C19_UnorderedNotes ==
    call.op = "Event.__eq__" =>
        (call.result <=>
            /\ call.self.duration = call.e2.duration
            /\ \A note \in NoteArgs :
                  Occurrences(call.self.notes, note) = Occurrences(call.e2.notes, note))

----------------------------------------------------------------------------
(* The channels the importer assigns.                                      *)

(* The tracks of the imported song follow the instruments, one by one. *)
TracksInInputOrder ==
    /\ Len(trail[1].val.tracks) = Len(pm.instruments)
    /\ \A i \in 1..Len(pm.instruments) :
          /\ trail[1].val.tracks[i].name = pm.instruments[i].name
          /\ trail[1].val.tracks[i].program = pm.instruments[i].program
          /\ trail[1].val.tracks[i].track_type = "DRUMS" <=> pm.instruments[i].is_drum

(* C20 as stated: the importer creates the tracks in input order; the      *)
(* track of every drum instrument gets channel 9; the tracks of the other  *)
(* instruments get strictly ascending channels that start at 0 and never   *)
(* equal 9, so that no two of them share a channel.                        *)
C20_ChannelAssignment ==
    (root = "pm" /\ Len(trail) >= 1 /\ trail[1].kind = "Song") =>
      LET tracks == trail[1].val.tracks
          melodic == {i \in 1..Len(pm.instruments) : ~pm.instruments[i].is_drum}
      IN /\ TracksInInputOrder
         /\ \A i \in 1..Len(pm.instruments) :
               pm.instruments[i].is_drum => tracks[i].channel = 9
         /\ \A i \in melodic : tracks[i].channel # 9
         /\ \A i, j \in melodic : i < j => tracks[i].channel < tracks[j].channel
         /\ \A i \in melodic :
               (\A j \in melodic : i <= j) => tracks[i].channel = 0

----------------------------------------------------------------------------
(* More tracks than channels.                                              *)

(* The messages of an exported track of one 3/8 measure, with or without   *)
(* the note 60 of velocity 100 over its first 360 ticks: they depend on    *)
(* the track alone (and on its being the first), whatever the channels of  *)
(* the other tracks.                                                       *)
OverflowMessages(first, channel, program, noted) ==
    << <<"program_change", channel, program, 0>> >>
    \o (IF first THEN << <<"time_signature", 3, 8, 0>> >> ELSE <<>>)
    \o (IF noted
        THEN << <<"note_on", channel, 60, 100, 0>>, <<"note_off", channel, 60, 0, 360>> >>
        ELSE <<>>)
    \o << <<"end_of_track", 0>> >>

(* C21: the import of more instruments than channels completes and still   *)
(* creates the overflow tracks, with a channel above 15; the export of     *)
(* such a song does not abort, a track with a channel above 15 contributes *)
(* no message at all, and every other track is exported exactly as it is   *)
(* when the offending tracks have a legal channel.                         *)
C21_SoftOverflow ==
    /\ (root = "pm" /\ Len(trail) >= 1) =>
          /\ trail[1].kind = "Song"
          /\ Len(trail[1].val.tracks) = Len(pm.instruments)
          /\ \A i \in 1..Len(pm.instruments) :
                (i >= 16 /\ ~pm.instruments[i].is_drum)
                    => trail[1].val.tracks[i].channel = i
    /\ (root = "pm" /\ Len(trail) >= 2) =>
          /\ trail[2].kind = "MidiFile"
          /\ Len(trail[2].val.tracks) = Len(trail[1].val.tracks)
          /\ \A i \in 1..Len(trail[1].val.tracks) :
                IF trail[1].val.tracks[i].channel > 15
                THEN trail[2].val.tracks[i].msgs = <<>>
                ELSE trail[2].val.tracks[i].msgs
                       = OverflowMessages(i = 1, trail[1].val.tracks[i].channel,
                                          pm.instruments[i].program,
                                          pm.instruments[i].notes # <<>>)

(* Sixteen instruments, the last two with a note: the sixteenth track gets *)
(* channel 16 and is exported empty, the fifteenth is exported with its    *)
(* program_change, note_on, note_off and end_of_track.                     *)
C21_Witness ==
    /\ root = "pm" /\ Len(trail) = 2
    /\ Len(pm.instruments) = 16
    /\ pm.instruments[15].notes # <<>>
    /\ pm.instruments[16].notes # <<>>
    /\ trail[1].val.tracks[16].channel = 16
    /\ trail[1].val.tracks[16].measures # <<>>
    /\ trail[2].val.tracks[16].msgs = <<>>
    /\ Len(trail[2].val.tracks[15].msgs) = 4

----------------------------------------------------------------------------
(* Ties after clean_ties and force_smooth_harmony.                         *)

(* The pitches an event leaves sounding in the exporter: its onsets and    *)
(* its ties.                                                               *)
LeftSounding(event) ==
    {event.notes[i].midi_pitch : i \in
        {j \in 1..Len(event.notes) :
            event.notes[j].tie_from_previous \/ event.notes[j].velocity > 0}}

UnderFilled(measure, ticks_per_beat) ==
    SumSeq([e \in 1..Len(measure.events) |-> measure.events[e].duration])
        < get_duration_ticks(measure.time_signature, ticks_per_beat)

(* The exporter's sounding set at the start of event e of measure m. *)
RECURSIVE SoundingBefore(_, _, _, _)
SoundingBefore(measures, m, e, ticks_per_beat) ==
    IF e > 1 THEN LeftSounding(measures[m].events[e - 1])
    ELSE IF m = 1 THEN {}
    ELSE IF UnderFilled(measures[m - 1], ticks_per_beat) THEN {}
    ELSE SoundingBefore(measures, m - 1, Len(measures[m - 1].events) + 1,
                        ticks_per_beat)

(* The events of a track, one measure after the other. *)
RECURSIVE EventsOf(_)
EventsOf(measures) ==
    IF measures = <<>> THEN <<>>
    ELSE Head(measures).events \o EventsOf(Tail(measures))

(* Every note is an onset of positive velocity or a tie with velocity -1   *)
(* whose pitch is held by the event before it in the track.                *)
PlainlyTied(s) ==
    \A t \in 1..Len(s.tracks) :
      LET events == EventsOf(s.tracks[t].measures)
      IN \A e \in 1..Len(events) :
           \A i \in 1..Len(events[e].notes) :
             LET note == events[e].notes[i]
             IN IF note.tie_from_previous
                THEN /\ note.velocity = -1
                     /\ e > 1
                     /\ \E j \in 1..Len(events[e - 1].notes) :
                           events[e - 1].notes[j].midi_pitch = note.midi_pitch
                ELSE note.velocity > 0

(* C22 as stated: after clean_ties() a Note is tied from the previous      *)
(* event only if its pitch is in the exporter's sounding set at the start  *)
(* of its Event, and a Note whose pitch is in that set keeps its flag      *)
(* (for songs of onsets and of ties that follow a note of their pitch).    *)
C22_CleanTies ==
    (root = "song" /\ trail # <<>> /\ trail[1].kind = "clean_ties" /\ PlainlyTied(song)) =>
      \A t \in 1..Len(song.tracks) :
        \A m \in 1..Len(song.tracks[t].measures) :
          \A e \in 1..Len(song.tracks[t].measures[m].events) :
            \A i \in 1..Len(song.tracks[t].measures[m].events[e].notes) :
              LET before == song.tracks[t].measures[m].events[e].notes[i]
                  after == trail[1].val.tracks[t].measures[m].events[e].notes[i]
                  sounding == SoundingBefore(trail[1].val.tracks[t].measures, m, e,
                                             song.ticks_per_beat)
              IN /\ after.tie_from_previous => after.midi_pitch \in sounding
                 /\ after.midi_pitch \in sounding
                       => after.tie_from_previous = before.tie_from_previous

(* C23: after force_smooth_harmony(), in every HARMONY track each Note     *)
(* whose pitch is also held by the Event just before it in the track is    *)
(* tied from the previous event, and every track that is not a HARMONY     *)
(* track is as it was.                                                     *)
C23_SmoothHarmony ==
    (root = "song" /\ trail # <<>> /\ trail[1].kind = "force_smooth_harmony") =>
      /\ Len(trail[1].val.tracks) = Len(song.tracks)
      /\ \A t \in 1..Len(song.tracks) :
            IF song.tracks[t].track_type = "HARMONY"
            THEN LET before == EventsOf(song.tracks[t].measures)
                     after == EventsOf(trail[1].val.tracks[t].measures)
                 IN /\ Len(after) = Len(before)
                    /\ \A e \in 2..Len(before) :
                          /\ Len(after[e].notes) = Len(before[e].notes)
                          /\ \A i \in 1..Len(before[e].notes) :
                                (\E j \in 1..Len(before[e - 1].notes) :
                                    before[e - 1].notes[j].midi_pitch
                                        = before[e].notes[i].midi_pitch)
                                => /\ after[e].notes[i].tie_from_previous
                                   /\ after[e].notes[i].midi_pitch
                                         = before[e].notes[i].midi_pitch
            ELSE trail[1].val.tracks[t] = song.tracks[t]

(* A HARMONY track that strikes pitch 60 in two events in a row, the       *)
(* second of which comes out tied, and a MELODY track whose first note, a  *)
(* tie with nothing before it, is left alone.                              *)
C23_Witness ==
    /\ root = "song" /\ trail # <<>> /\ trail[1].kind = "force_smooth_harmony"
    /\ Len(song.tracks) = 2
    /\ song.tracks[1].track_type = "HARMONY"
    /\ song.tracks[2].track_type = "MELODY"
    /\ LET before == EventsOf(song.tracks[1].measures)
           after == EventsOf(trail[1].val.tracks[1].measures)
       IN /\ Len(before) = 2
          /\ before[1].notes = <<[midi_pitch |-> 60, velocity |-> 100,
                                  tie_from_previous |-> FALSE]>>
          /\ before[2].notes = before[1].notes
          /\ after[2].notes = <<[midi_pitch |-> 60, velocity |-> 100,
                                 tie_from_previous |-> TRUE]>>
    /\ LET melody == EventsOf(trail[1].val.tracks[2].measures)
       IN /\ Len(melody) = 1
          /\ melody[1].notes = <<[midi_pitch |-> 60, velocity |-> -1,
                                  tie_from_previous |-> TRUE]>>

----------------------------------------------------------------------------
(* The arguments of a Key.                                                 *)

(* C24: Key(...) raises ArgumentError, with no attribute of the Key set,   *)
(* when both or neither of tonic_pitch_class and num_sharps are given, and *)
(* never raises ArgumentError when exactly one is given.                   *)
C24_ExactlyOneArgument ==
    call.op = "Key" =>
        IF (call.tonic_pitch_class = <<>>) = (call.num_sharps = <<>>)
        THEN call.result.kind = "ArgumentError" /\ call.result.fields = {}
        ELSE call.result.kind \in {"Key", "AssertionError"}

(* Key(tonic_pitch_class=0, num_sharps=0) has raised ArgumentError. *)
C24_Witness ==
    /\ call.op = "Key"
    /\ call.tonic_pitch_class = <<0>>
    /\ call.num_sharps = <<0>>
    /\ call.result.kind = "ArgumentError"

----------------------------------------------------------------------------
(* The events the sweep commits.                                           *)

(* No two intervals of one pitch in one instrument overlap. *)
NonOverlapping ==
    \A i \in 1..Len(pm.instruments) :
      \A n, o \in 1..Len(pm.instruments[i].notes) :
        (n # o /\ pm.instruments[i].notes[n].pitch = pm.instruments[i].notes[o].pitch)
          => \/ pm.instruments[i].notes[n].end <= pm.instruments[i].notes[o].start
             \/ pm.instruments[i].notes[o].end <= pm.instruments[i].notes[n].start

(* The ticks at which a note of the instrument starts or ends or a measure *)
(* starts.                                                                 *)
InstantTicks(instrument) ==
    {instrument.notes[n].start : n \in 1..Len(instrument.notes)}
    \cup {instrument.notes[n].end : n \in 1..Len(instrument.notes)}
    \cup {pm.downbeats[k] : k \in 1..Len(pm.downbeats)}

(* A finite set of ticks in ascending order. *)
RECURSIVE Ascending(_)
Ascending(ticks) ==
    IF ticks = {} THEN <<>>
    ELSE LET first == CHOOSE a \in ticks : \A b \in ticks : a <= b
         IN <<first>> \o Ascending(ticks \ {first})

(* The instants of measure k: from its downbeat up to the next downbeat,   *)
(* or up to the last instant for the last measure.                         *)
MeasureTicks(instrument, k) ==
    Ascending({tick \in InstantTicks(instrument) :
                  /\ pm.downbeats[k] <= tick
                  /\ k < Len(pm.downbeats) => tick <= pm.downbeats[k + 1]})

(* The Note the event of the span from a to b holds for an interval. *)
NoteFor(interval, a) ==
    IF interval.start = a
    THEN [midi_pitch |-> interval.pitch, velocity |-> interval.velocity,
          tie_from_previous |-> FALSE]
    ELSE [midi_pitch |-> interval.pitch, velocity |-> -1, tie_from_previous |-> TRUE]

(* The event of the span from a to b: its duration, and for every pitch no *)
(* Note when no interval covers the span, and the one Note of the covering *)
(* interval when one does.                                                 *)
EventOfSpan(instrument, event, a, b) ==
    /\ event.duration = b - a
    /\ \A pitch \in Pitches :
          LET covering == {n \in 1..Len(instrument.notes) :
                              /\ instrument.notes[n].pitch = pitch
                              /\ instrument.notes[n].start <= a
                              /\ b <= instrument.notes[n].end}
              held == SelectSeq(event.notes, LAMBDA note : note.midi_pitch = pitch)
          IN IF covering = {} THEN held = <<>>
             ELSE \E n \in covering : held = <<NoteFor(instrument.notes[n], a)>>
    /\ \A i \in 1..Len(event.notes) : event.notes[i].midi_pitch \in Pitches

(* C25: for intervals of positive length of which no two of one pitch      *)
(* overlap, the events of every measure are the spans between consecutive  *)
(* ticks at which a note starts, a note ends or a measure starts; the      *)
(* event of a span holds a pitch exactly when an interval of the pitch     *)
(* covers the span, as an onset with the interval's velocity when the      *)
(* interval starts with the span and as a tie of velocity -1 otherwise.    *)
C25_SweepResult ==
    (FirstImport /\ NonOverlapping) =>
      \A i \in 1..Len(pm.instruments) :
        LET track == trail[1].val.tracks[i]
        IN /\ Len(track.measures) = Len(pm.downbeats)
           /\ \A k \in 1..Len(pm.downbeats) :
                 LET ticks == MeasureTicks(pm.instruments[i], k)
                     events == track.measures[k].events
                 IN /\ Len(events) = Len(ticks) - 1
                    /\ \A e \in 1..Len(events) :
                          EventOfSpan(pm.instruments[i], events[e], ticks[e], ticks[e + 1])

(* Pitch 60 from 0 to 1080 across the downbeat at 720 and pitch 64 from    *)
(* 360 to 720: the spans are 0-360, 360-720 and 720-1080, pitch 60 is an   *)
(* onset, a tie and a tie, pitch 64 an onset in the second span.           *)
C25_Witness ==
    /\ FirstImport /\ NonOverlapping
    /\ pm.downbeats = <<0, 720>>
    /\ Len(pm.instruments) = 1
    /\ {pm.instruments[1].notes[n] : n \in 1..Len(pm.instruments[1].notes)}
         = {[start |-> 0, end |-> 1080, pitch |-> 60, velocity |-> 100],
            [start |-> 360, end |-> 720, pitch |-> 64, velocity |-> 100]}
    /\ Len(trail[1].val.tracks[1].measures[1].events) = 2
    /\ Len(trail[1].val.tracks[1].measures[2].events) = 1
    /\ trail[1].val.tracks[1].measures[2].events[1].notes
         = <<[midi_pitch |-> 60, velocity |-> -1, tie_from_previous |-> TRUE]>>

----------------------------------------------------------------------------
(* The ticks at which the messages of a track are emitted.                 *)

Repeat(x, n) == [i \in 1..n |-> x]

(* Event e of measure m emits, at its start, a note_off for every sounding *)
(* pitch it does not tie and a message for every Note that is not a tie.   *)
EmittedByEvent(measures, m, e, ticks_per_beat) ==
    LET event == measures[m].events[e]
        tied == {event.notes[i].midi_pitch : i \in
                    {j \in 1..Len(event.notes) : event.notes[j].tie_from_previous}}
        struck == SelectSeq(event.notes, LAMBDA note : ~note.tie_from_previous)
    IN Repeat(EventStart(measures[m], e),
              Cardinality(SoundingBefore(measures, m, e, ticks_per_beat) \ tied)
                + Len(struck))

RECURSIVE EmittedByEvents(_, _, _, _)
EmittedByEvents(measures, m, e, ticks_per_beat) ==
    IF e > Len(measures[m].events) THEN <<>>
    ELSE EmittedByEvent(measures, m, e, ticks_per_beat)
         \o EmittedByEvents(measures, m, e + 1, ticks_per_beat)

(* Measure m emits its time signature at its start tick (first track, when *)
(* it differs from the measure before), then its events, then, when it is  *)
(* under-filled, a note_off for every sounding pitch where its events end. *)
EmittedByMeasure(measures, m, first_track, ticks_per_beat) ==
    (IF first_track /\ (m = 1 \/ measures[m].time_signature
                                    # measures[m - 1].time_signature)
     THEN <<measures[m].start_tick>> ELSE <<>>)
    \o EmittedByEvents(measures, m, 1, ticks_per_beat)
    \o (IF UnderFilled(measures[m], ticks_per_beat)
        THEN Repeat(measures[m].start_tick + EventTicks(measures[m]),
                    Cardinality(SoundingBefore(measures, m,
                                               Len(measures[m].events) + 1,
                                               ticks_per_beat)))
        ELSE <<>>)

RECURSIVE EmittedByMeasures(_, _, _, _)
EmittedByMeasures(measures, m, first_track, ticks_per_beat) ==
    IF m > Len(measures) THEN <<>>
    ELSE EmittedByMeasure(measures, m, first_track, ticks_per_beat)
         \o EmittedByMeasures(measures, m + 1, first_track, ticks_per_beat)

(* The tick after the last Event of the track. *)
TrackEnd(track) ==
    IF track.measures = <<>> THEN 0
    ELSE track.measures[Len(track.measures)].start_tick
         + EventTicks(track.measures[Len(track.measures)])

(* The pitches still sounding after the last Event. *)
SoundingAtEnd(track, ticks_per_beat) ==
    LET last == Len(track.measures)
    IN IF last = 0 THEN {}
       ELSE IF UnderFilled(track.measures[last], ticks_per_beat) THEN {}
       ELSE SoundingBefore(track.measures, last,
                           Len(track.measures[last].events) + 1, ticks_per_beat)

(* The ticks at which the messages of a track are emitted, in order: the   *)
(* program_change at 0, the measures, the note_offs of the track end, and, *)
(* when wanted, the end_of_track.                                          *)
EmitTicks(track, first_track, ticks_per_beat, with_end_of_track) ==
    <<0>>
    \o EmittedByMeasures(track.measures, 1, first_track, ticks_per_beat)
    \o Repeat(TrackEnd(track), Cardinality(SoundingAtEnd(track, ticks_per_beat)))
    \o (IF with_end_of_track THEN <<TrackEnd(track)>> ELSE <<>>)

(* The sums of the delta times up to each message of a track. *)
DeltaSums(msgs) == [i \in 1..Len(msgs) |-> AbsTicks(msgs, 0)[i][2]]

(* C26 as stated: for every message of an exported track, the end_of_track *)
(* included, the sum of the delta times up to it is the tick at which it   *)
(* was emitted: the start tick of its measure plus the durations of the    *)
(* events before the emitting one, and the tick after the last Event for   *)
(* what is emitted at the end of the track.                                *)
C26_ExportTiming ==
    (Exported /\ root = "song") =>
      \A t \in 1..Len(song.tracks) :
        song.tracks[t].channel <= 15
          => DeltaSums(trail[1].val.tracks[t].msgs)
               = EmitTicks(song.tracks[t], t = 1, song.ticks_per_beat, TRUE)

----------------------------------------------------------------------------
(* The frame of an exported track.                                         *)

(* C27: every exported track that is not skipped starts with               *)
(* program_change and ends with end_of_track, and every note_on of a pitch *)
(* is followed, before the end_of_track, by a note_off of that pitch.      *)
C27_TrackFrame ==
    (Exported /\ root = "song") =>
      \A t \in 1..Len(song.tracks) :
        song.tracks[t].channel <= 15 =>
          LET msgs == trail[1].val.tracks[t].msgs
          IN /\ Len(msgs) >= 2
             /\ msgs[1][1] = "program_change"
             /\ msgs[Len(msgs)] = <<"end_of_track", 0>>
             /\ \A i \in 1..Len(msgs) :
                   msgs[i][1] = "note_on" =>
                     \E j \in (i + 1)..(Len(msgs) - 1) :
                        msgs[j][1] = "note_off" /\ msgs[j][3] = msgs[i][3]

(* A 4/4 measure filled by an onset of pitch 60 and its tie: the note_off  *)
(* is the one of the track end, at tick 1920.                              *)
C27_Witness ==
    /\ Exported /\ root = "song"
    /\ Len(song.tracks) = 1
    /\ Len(song.tracks[1].measures) = 1
    /\ Len(song.tracks[1].measures[1].events) = 2
    /\ trail[1].val.tracks[1].msgs
         = << <<"program_change", 0, 0, 0>>, <<"time_signature", 4, 4, 0>>,
              <<"note_on", 0, 60, 100, 0>>, <<"note_off", 0, 60, 0, 1920>>,
              <<"end_of_track", 0>> >>

----------------------------------------------------------------------------
(* The order of the messages of one Event.                                 *)

(* The number of messages of a track before those of event e of measure m. *)
MessagesBefore(measures, m, e, first_track, ticks_per_beat) ==
    1 + SumSeq([k \in 1..(m - 1) |->
                  Len(EmittedByMeasure(measures, k, first_track, ticks_per_beat))])
      + (IF first_track /\ (m = 1 \/ measures[m].time_signature
                                       # measures[m - 1].time_signature)
         THEN 1 ELSE 0)
      + SumSeq([k \in 1..(e - 1) |->
                  Len(EmittedByEvent(measures, m, k, ticks_per_beat))])

(* The messages that event e of measure m wrote to the exported track. *)
MessagesOfEvent(msgs, measures, m, e, first_track, ticks_per_beat) ==
    LET before == MessagesBefore(measures, m, e, first_track, ticks_per_beat)
    IN SubSeq(msgs, before + 1,
              before + Len(EmittedByEvent(measures, m, e, ticks_per_beat)))

TiedPitches(event) ==
    {event.notes[i].midi_pitch : i \in
        {j \in 1..Len(event.notes) : event.notes[j].tie_from_previous}}

(* The pitches event e of measure m strikes while they are sounding. *)
Restruck(measures, m, e, ticks_per_beat) ==
    LET event == measures[m].events[e]
    IN {p \in SoundingBefore(measures, m, e, ticks_per_beat) \ TiedPitches(event) :
          \E i \in NotesOf(event, p) : event.notes[i].velocity > 0}

----------------------------------------------------------------------------
(* The end of a measure in the exported track.                             *)

(* How many note_offs of a pitch a run of messages has. *)
NoteOffsOf(msgs, pitch) ==
    Cardinality({i \in 1..Len(msgs) : msgs[i][1] = "note_off" /\ msgs[i][3] = pitch})

ExactlyFilled(measure, ticks_per_beat) ==
    EventTicks(measure) = get_duration_ticks(measure.time_signature, ticks_per_beat)

(* C29: when the Events of a measure end before the measure does, the      *)
(* messages after those of its Events are one note_off for every sounding  *)
(* pitch, at the tick where the last Event ends, and the sounding set is   *)
(* cleared: the first Event of the next measure turns nothing off.  When   *)
(* the Events fill the measure exactly the sounding pitches are carried:   *)
(* up to the end of the first Event of the next measure a pitch that Event *)
(* ties gets no note_off and a pitch it does not tie gets the one note_off *)
(* that Event writes.                                                      *)
C29_UnderFilledMeasure ==
    (Exported /\ root = "song") =>
      \A t \in 1..Len(song.tracks) :
        song.tracks[t].channel <= 15 =>
          LET measures == song.tracks[t].measures
              msgs == trail[1].val.tracks[t].msgs
              ticks == DeltaSums(msgs)
          IN \A m \in 1..Len(measures) :
               LET left == SoundingBefore(measures, m, Len(measures[m].events) + 1,
                                          song.ticks_per_beat)
                   end == measures[m].start_tick + EventTicks(measures[m])
                   before == MessagesBefore(measures, m, Len(measures[m].events) + 1,
                                            t = 1, song.ticks_per_beat)
                   k == Cardinality(left)
                   followed == m < Len(measures) /\ measures[m + 1].events # <<>>
               IN /\ UnderFilled(measures[m], song.ticks_per_beat) =>
                       /\ Len(msgs) >= before + k
                       /\ \A i \in (before + 1)..(before + k) :
                             msgs[i][1] = "note_off" /\ ticks[i] = end
                       /\ {msgs[i][3] : i \in (before + 1)..(before + k)} = left
                       /\ followed =>
                             \A p \in Pitches :
                               NoteOffsOf(MessagesOfEvent(msgs, measures, m + 1, 1,
                                              t = 1, song.ticks_per_beat), p) = 0
                  /\ (ExactlyFilled(measures[m], song.ticks_per_beat) /\ followed) =>
                       LET through == MessagesBefore(measures, m + 1, 2, t = 1,
                                                     song.ticks_per_beat)
                       IN /\ Len(msgs) >= through
                          /\ \A p \in left :
                               NoteOffsOf(SubSeq(msgs, before + 1, through), p)
                                 = IF p \in TiedPitches(measures[m + 1].events[1])
                                   THEN 0 ELSE 1

(* A 4/4 measure holding one Event of 720 ticks that strikes pitch 60 and  *)
(* a second measure that strikes pitch 64: the note_off of 60 is at tick   *)
(* 720 and the 1200 ticks up to the bar line are silent.                   *)
C29_Witness ==
    /\ Exported /\ root = "song"
    /\ Len(song.tracks) = 1
    /\ Len(song.tracks[1].measures) = 2
    /\ UnderFilled(song.tracks[1].measures[1], song.ticks_per_beat)
    /\ trail[1].val.tracks[1].msgs
         = << <<"program_change", 0, 0, 0>>, <<"time_signature", 4, 4, 0>>,
              <<"note_on", 0, 60, 100, 0>>, <<"note_off", 0, 60, 0, 720>>,
              <<"note_on", 0, 64, 100, 1200>>, <<"note_off", 0, 64, 0, 720>>,
              <<"end_of_track", 0>> >>

(* A 3/8 measure filled by one Event that strikes pitch 60 and a second    *)
(* measure whose Event ties it: the one note_off of 60 is at tick 1440.    *)
C29_WitnessCarried ==
    /\ Exported /\ root = "song"
    /\ Len(song.tracks) = 1
    /\ Len(song.tracks[1].measures) = 2
    /\ ExactlyFilled(song.tracks[1].measures[1], song.ticks_per_beat)
    /\ trail[1].val.tracks[1].msgs
         = << <<"program_change", 0, 0, 0>>, <<"time_signature", 3, 8, 0>>,
              <<"note_on", 0, 60, 100, 0>>, <<"note_off", 0, 60, 0, 1440>>,
              <<"end_of_track", 0>> >>

----------------------------------------------------------------------------
(* The pitches of an imported Event.                                       *)

DistinctPitches(event) ==
    \A i, j \in 1..Len(event.notes) :
        i # j => event.notes[i].midi_pitch # event.notes[j].midi_pitch

(* C30: every Event of every Song the importer returns has pairwise        *)
(* distinct pitches, whatever the note intervals it was given.             *)
C30_ImportedPitchesDistinct ==
    \A k \in 1..Len(trail) :
      (root = "pm" /\ trail[k].kind = "Song") =>
        \A t \in 1..Len(trail[k].val.tracks) :
          \A m \in 1..Len(trail[k].val.tracks[t].measures) :
            \A e \in 1..Len(trail[k].val.tracks[t].measures[m].events) :
              DistinctPitches(trail[k].val.tracks[t].measures[m].events[e])

(* Three intervals of pitch 60, <<0, 2>>, <<1, 3>> and <<0, 1>> in steps   *)
(* of 360 ticks: two of them overlap, two start at tick 0, and one ends at *)
(* tick 360 where another starts.  The import gives three Events, the      *)
(* first two with one onset of pitch 60 and the third with no note.        *)
C30_Witness ==
    /\ root = "pm" /\ Len(trail) >= 1 /\ trail[1].kind = "Song"
    /\ Len(pm.instruments) = 1
    /\ LET notes == pm.instruments[1].notes
       IN /\ \A n \in 1..Len(notes) : notes[n].pitch = 60
          /\ \E a, b \in 1..Len(notes) :
                notes[a].start < notes[b].start /\ notes[b].start < notes[a].end
          /\ \E a, b \in 1..Len(notes) : a # b /\ notes[a].start = notes[b].start
          /\ \E a, b \in 1..Len(notes) : a # b /\ notes[a].end = notes[b].start
    /\ Len(trail[1].val.tracks) = 1
    /\ Len(trail[1].val.tracks[1].measures) = 1
    /\ trail[1].val.tracks[1].measures[1].events
         = << [duration |-> 360,
               notes |-> << [midi_pitch |-> 60, velocity |-> 100,
                             tie_from_previous |-> FALSE] >>],
              [duration |-> 360,
               notes |-> << [midi_pitch |-> 60, velocity |-> 100,
                             tie_from_previous |-> FALSE] >>],
              [duration |-> 360, notes |-> <<>>] >>

----------------------------------------------------------------------------
(* The measures of an imported Song.                                       *)

(* C31: in a Song imported from downbeats that start at tick 0, every      *)
(* track has one Measure per downbeat, with the time signature of that     *)
(* downbeat, and the Event durations of every Measure but the last sum to  *)
(* the distance from its downbeat to the next.                             *)
C31_MeasurePerDownbeat ==
    (/\ root = "pm" /\ Len(trail) >= 1 /\ trail[1].kind = "Song"
     /\ pm.downbeats # <<>> /\ pm.downbeats[1] = 0) =>
      \A t \in 1..Len(trail[1].val.tracks) :
        LET measures == trail[1].val.tracks[t].measures
        IN /\ Len(measures) = Len(pm.downbeats)
           /\ \A k \in 1..Len(measures) :
                 /\ measures[k].time_signature = pm.time_signatures[k]
                 /\ k < Len(measures) =>
                       EventTicks(measures[k])
                         = pm.downbeats[k + 1] - pm.downbeats[k]

(* Downbeats 0 (3/8) and 720 (3/16) and one note of pitch 60 over the      *)
(* first 360 ticks: the first Measure holds the note and an empty Event of *)
(* 360 ticks, the second Measure holds no Event.                           *)
C31_Witness ==
    /\ root = "pm" /\ Len(trail) >= 1 /\ trail[1].kind = "Song"
    /\ pm.downbeats = <<0, 720>>
    /\ Len(trail[1].val.tracks) = 1
    /\ trail[1].val.tracks[1].measures
         = << [start_tick |-> 0,
               time_signature |-> [numerator |-> 3, denominator |-> 8],
               events |-> << [duration |-> 360,
                              notes |-> << [midi_pitch |-> 60, velocity |-> 100,
                                            tie_from_previous |-> FALSE] >>],
                             [duration |-> 360, notes |-> <<>>] >>],
              [start_tick |-> 720,
               time_signature |-> [numerator |-> 3, denominator |-> 16],
               events |-> <<>>] >>

----------------------------------------------------------------------------
(* The importer with a first downbeat that may be later than tick 0: the   *)
(* caller hands it ascending downbeats, the first at tick 0 or after it,   *)
(* and note intervals that may start before the first downbeat.            *)

FirstDownbeats == {0, TickStep, 2 * TickStep}

InitLateDownbeat ==
    /\ root = "pm"
    /\ song = NoSong
    /\ \E first \in FirstDownbeats, time_signature \in DownbeatTimeSigs :
          pm = [resolution |-> TicksPerBeat, instruments |-> <<>>,
                downbeats |-> <<first>>, time_signatures |-> <<time_signature>>]
    /\ stream = NoStream
    /\ trail = <<>>
    /\ call = NoCall

NextLateDownbeat ==
    \/ AddInstrument \/ AddInterval \/ AddDownbeat
    \/ CreateSongFromPrettyMidiInstruments

SpecLateDownbeat == InitLateDownbeat /\ [][NextLateDownbeat]_vars

(* The downbeats are in ascending order. *)
AscendingDownbeats ==
    \A i \in 1..(Len(pm.downbeats) - 1) : pm.downbeats[i] < pm.downbeats[i + 1]

(* C32 as stated: for ascending downbeats, a first downbeat later than     *)
(* tick 0 and notes that start before the first downbeat included, the     *)
(* sweep commits every Event to a Measure that is already open: no import  *)
(* ends in the AttributeError of new_event on a current_measure that is    *)
(* still None.                                                             *)
C32_MeasureOpen ==
    (/\ root = "pm" /\ Len(trail) >= 1
     /\ pm.downbeats # <<>> /\ AscendingDownbeats /\ PositiveLengths) =>
      trail[1].kind # "AttributeError"

----------------------------------------------------------------------------
(* Symmetry of equality.                                                   *)

(* C33 as stated: a == b exactly when b == a, for two Events (Events that  *)
(* hold one Note twice included) and for two Songs (Songs that hold one    *)
(* Track twice included).                                                  *)
C33_EqualitySymmetric ==
    /\ call.op = "Event.__eq__" => (call.result <=> EventEq(call.e2, call.self))
    /\ call.op = "Song.__eq__" => (call.result <=> SongEq(call.s2, call.self))

----------------------------------------------------------------------------
(* What the equality of measures looks at.                                 *)

(* The events of every measure of every track, trailing rests dropped. *)
EventLists(s) ==
    [t \in 1..Len(s.tracks) |->
        [m \in 1..Len(s.tracks[t].measures) |->
            WithoutTrailingRests(s.tracks[t].measures[m].events)]]

(* The fields of a track other than its measures. *)
TrackHeads(s) ==
    [t \in 1..Len(s.tracks) |->
        <<s.tracks[t].name, s.tracks[t].program, s.tracks[t].channel,
          s.tracks[t].track_type>>]

(* C34: two Measures whose Events are equal once the trailing rests are    *)
(* dropped compare equal, whatever their time signatures; and two Songs    *)
(* whose tracks agree one by one in name, program, channel, type and in    *)
(* the Events of every Measure compare equal, whatever the time signatures *)
(* and start ticks of their Measures.                                      *)
C34_EventsOnly ==
    /\ (/\ call.op = "Measure.__eq__"
        /\ WithoutTrailingRests(call.self.events)
              = WithoutTrailingRests(call.m2.events))
          => call.result
    /\ (/\ call.op = "Song.__eq__"
        /\ TrackHeads(call.self) = TrackHeads(call.s2)
        /\ EventLists(call.self) = EventLists(call.s2))
          => call.result

(* Two Songs of one Track that compare equal: 4/4 then 3/8 with the note   *)
(* in a second Measure at tick 1920, and 3/8 then 4/4 with the note in a   *)
(* second Measure at tick 720.                                             *)
C34_Witness ==
    /\ call.op = "Song.__eq__"
    /\ call.result
    /\ Len(call.self.tracks) = 1 /\ Len(call.s2.tracks) = 1
    /\ call.self.tracks[1].measures
         = << [start_tick |-> 0,
               time_signature |-> [numerator |-> 4, denominator |-> 4],
               events |-> <<>>],
              [start_tick |-> 1920,
               time_signature |-> [numerator |-> 3, denominator |-> 8],
               events |-> << [duration |-> 720,
                              notes |-> << [midi_pitch |-> 60, velocity |-> 100,
                                            tie_from_previous |-> FALSE] >>] >>] >>
    /\ call.s2.tracks[1].measures
         = << [start_tick |-> 0,
               time_signature |-> [numerator |-> 3, denominator |-> 8],
               events |-> <<>>],
              [start_tick |-> 720,
               time_signature |-> [numerator |-> 4, denominator |-> 4],
               events |-> << [duration |-> 720,
                              notes |-> << [midi_pitch |-> 60, velocity |-> 100,
                                            tie_from_previous |-> FALSE] >>] >>] >>

(* Two Measures of the same Events, one in 4/4 and one in 3/8, that        *)
(* compare equal.                                                          *)
C34_WitnessMeasures ==
    /\ call.op = "Measure.__eq__"
    /\ call.result
    /\ call.self.events # <<>>
    /\ call.self.events = call.m2.events
    /\ call.self.time_signature = [numerator |-> 4, denominator |-> 4]
    /\ call.m2.time_signature = [numerator |-> 3, denominator |-> 8]

====
